---- MODULE Spec2Model ----
(***************************************************************************)
(* State-machine model of the resumable, cancellable scrape loops of the   *)
(* golf-scraper repository: the checkpoint store (progressManager.js), the *)
(* status registry (scraperController.js) and the scraper functions that   *)
(* use them.  One specification per scraper; they share the variables.     *)
(*                                                                         *)
(* A JavaScript handler runs to its next await without interruption, so an *)
(* action is the code between two suspension points.  Array indexes are    *)
(* kept 0-based as in the source; the element at index i of a JavaScript   *)
(* array a is a[i + 1] here.                                               *)
(***************************************************************************)
EXTENDS Integers, Sequences, FiniteSets, TLC

VARIABLES
    progressStore,   \* progressManager.js: taskName -> progress record
    scraperStatus,   \* scraperController.js: the Map scraperId -> status
    files,           \* the data/stores files: name -> [exists, data]
    stopRequested,   \* what the stopSignal() argument of the citeezon jobs returns
    run              \* the locals of the scraper function(s) being executed

vars == <<progressStore, scraperStatus, files, stopRequested, run>>

----------------------------------------------------------------------------
(* Bounds of the model *)

NumStores == 4      \* stores in the input list of a detail job
TkNumShops == 10    \* shops in the input list of the thekgolf job
SgNumStores == 6    \* stores in the input list of the sggolf_detail job
SgMaxEvents == 1    \* injected failures and stop requests in one sggolf_detail run
GncNumStores == 6   \* stores on the list page of the gncgolf job
GncMaxFaults == 3   \* failing appends to the output of the gncgolf job
FgMaxRegions == 2   \* provinces in the regions list of the friendgolf job
FgMaxDistricts == 2 \* districts of one province of the friendgolf job
FgMaxMore == 1      \* clicks of the "more" button in one district search
FgMaxEvents == 2    \* injected failures and stop requests in one friendgolf behaviour
TbNumPages == 2     \* pages of the store list of the thekgolf_basic job that have rows
TbPageSize == 2     \* rows of one page of the thekgolf_basic job
TbMaxEvents == 2    \* injected failures and stop requests in one thekgolf_basic behaviour
MaxFaults == 1      \* injected failures (throwing fetches or writes) in one behaviour
MaxRuns == 2        \* invocations of a scraper function in one behaviour

----------------------------------------------------------------------------
(* Helpers *)

Range(s) == {s[j] : j \in 1..Len(s)}

\* The number of positions of s that hold a value of set S.
CountIn(s, S) == Cardinality({j \in 1..Len(s) : s[j] \in S})

----------------------------------------------------------------------------
(* progressManager.js *)

TaskNames == {"citeezon_details", "citeezon", "sggolf_detail", "thekgolf",
              "gncgolf", "fieldzone", "okongolf_store", "golfzone",
              "publicgcreengolf_store", "friendgolf", "thekgolf_basic"}

\* No entry for the task in progressStore.
Absent == [absent |-> TRUE]

\* Array(totalRegions).fill(0): the callers modelled here pass no
\* totalRegions or an object, and Array(x) of a value x that is not a
\* number is the one-element array [x].
DefaultProgress == [lastProcessedRegionIndex |-> 0, regionsProgress |-> <<0>>]

\* A readProgress that installs the default record whatever the store holds.
readProgressStoreAlwaysDefault(store, taskName) ==
    [store EXCEPT ![taskName] = DefaultProgress]

\* The store after readProgress(taskName): a missing entry is created.
readProgressStore(store, taskName) ==
    IF store[taskName] = Absent
    THEN [store EXCEPT ![taskName] = DefaultProgress]
    ELSE store

\* The record readProgress(taskName) returns.
readProgress(store, taskName) == readProgressStore(store, taskName)[taskName]

saveProgress(store, taskName, progress) == [store EXCEPT ![taskName] = progress]

\* A destructured field that may be undefined, with the initial value the
\* caller substitutes for undefined.
FieldOr(rec, f, dflt) == IF f \in DOMAIN rec THEN rec[f] ELSE dflt

\* The object rec after the assignment rec.f = v.
SetField(rec, f, v) == [x \in DOMAIN rec \cup {f} |-> IF x = f THEN v ELSE rec[x]]

----------------------------------------------------------------------------
(* scraperController.js *)

ScraperIds == {"sggolf_detail", "thekgolf", "gncgolf", "fieldzone", "okongolf_store",
               "scrape_golfzone", "publicgcreengolf_store",
               "publicgcreengolf_details", "friendgolf", "thekgolf_basic"}

setScraperStatus(status, scraperId, s) == [status EXCEPT ![scraperId] = s]

\* A getScraperStatus without the `|| 'idle'`.
getScraperStatusRaw(status, scraperId) == status[scraperId]

getScraperStatus(status, scraperId) ==
    IF status[scraperId] = "unset" THEN "idle" ELSE status[scraperId]

stopScraper(status, scraperId) == setScraperStatus(status, scraperId, "stopped")

resetScraper(status, scraperId) == setScraperStatus(status, scraperId, "idle")

----------------------------------------------------------------------------
(* The files under data/stores *)

FileNames == {"citeezon_stores.json", "citeezon_stores_detailed.json",
              "thekgolf_shops.json", "thekgolf_stores_detailed.json",
              "sggolf_stores.json", "gncgolf_stores.jsonl",
              "parongolf_stores.json", "okongolf_stores.json",
              "golfzone_stores.json", "publicgcreengolf_stores.json",
              "friendgolf_shops.json", "thekgolf_stores.json"}

NoFile == [exists |-> FALSE, data |-> <<>>]

File(data) == [exists |-> TRUE, data |-> data]

InitStatus == [id \in ScraperIds |-> "unset"]

InitProgress == [t \in TaskNames |-> Absent]

----------------------------------------------------------------------------
(* citeezon_details.js: scrapeCiteezenDetails.  A store is its link. *)

CdName == "citeezon_details"
CdInputFile == "citeezon_stores.json"
CdOutputFile == "citeezon_stores_detailed.json"

\* The input list: NumStores stores with pairwise distinct links.
CdInput == [j \in 1..NumStores |-> j]

CdOutcomes == {"ok", "fetchFail", "writeFail"}

CdIdle == [pc |-> "idle", i |-> 0, retries |-> 0, stores |-> <<>>, allStores |-> <<>>,
           runs |-> 0, fetched |-> {}, last |-> 0, tries |-> 0, fetchOks |-> 0,
           ends |-> <<>>, failures |-> 0, viaRoute |-> FALSE, sse |-> <<>>,
           before |-> NoFile, setupFaults |-> 0]

\* The input file is there or not; an output of earlier runs may be left
\* where the input has been removed.
CdInit ==
    /\ progressStore = InitProgress
    /\ scraperStatus = InitStatus
    /\ \E present \in BOOLEAN, output \in {NoFile, File(<<1>>)} :
          /\ present => output = NoFile
          /\ files = [f \in FileNames |->
                        IF f = CdInputFile /\ present THEN File(CdInput)
                        ELSE IF f = CdOutputFile THEN output ELSE NoFile]
    /\ stopRequested = FALSE
    /\ run = CdIdle

\* lines 68-75: the stores whose link is not yet in the output file.
CdStoresToProcess(input, output) ==
    IF output.exists
    THEN SelectSeq(input, LAMBDA s : s \notin Range(output.data))
    ELSE input

\* Mutant of CdRouteEvents: the end event is sent after the error event too.
CdRouteEventsAlwaysEnd(viaRoute, how) ==
    IF ~viaRoute THEN <<>>
    ELSE IF how = "failed" THEN <<"error", "end">> ELSE <<"end">>

\* route.js lines 65-76 (scrape_citeezen_detail): the events GET puts on its
\* stream once the promise of scrapeCiteezenDetails has settled: `end` if
\* it fulfilled, `error` if it rejected.  (The log functions send events
\* named `log`, which are left out.)  A direct caller has no stream.
CdRouteEvents(viaRoute, how) ==
    IF ~viaRoute THEN <<>>
    ELSE IF how = "failed" THEN <<"error">> ELSE <<"end">>

\* line 24 and route.js line 63: what stopSignal() returns.  GET passes
\* () => false; any other caller passes its own function.
CdStopSignal == ~run.viaRoute /\ stopRequested

\* lines 29-87: read the progress record, check the Chromium executable and
\* the input (without either the function throws), load both files.  The
\* call comes from GET of the route or from another caller.
CdStart(viaRoute, chromium) ==
    /\ run.pc \in {"idle", "completed", "stopped", "failed"}
    /\ run.runs < MaxRuns
    /\ chromium \/ run.setupFaults < MaxFaults
    /\ progressStore' = readProgressStore(progressStore, CdName)
    /\ LET progress == readProgress(progressStore, CdName)
           currentIndex == FieldOr(progress, "currentIndex", 0)
       IN IF ~chromium \/ ~files[CdInputFile].exists
          THEN run' = [run EXCEPT !.pc = "failed", !.runs = @ + 1, !.fetched = {},
                                  !.viaRoute = viaRoute,
                                  !.before = files[CdOutputFile],
                                  !.setupFaults = IF chromium THEN @ ELSE @ + 1,
                                  !.sse = CdRouteEvents(viaRoute, "failed"),
                                  !.ends = Append(@, [how |-> IF chromium THEN "failed"
                                                              ELSE "noChromium",
                                                      at |-> currentIndex])]
          ELSE run' = [run EXCEPT
                         !.viaRoute = viaRoute, !.sse = <<>>,
                         !.before = files[CdOutputFile],
                         !.pc = "top", !.runs = @ + 1, !.i = currentIndex,
                         !.stores = CdStoresToProcess(files[CdInputFile].data,
                                                      files[CdOutputFile]),
                         !.allStores = files[CdOutputFile].data,
                         !.fetched = {}, !.retries = 0, !.tries = 0, !.fetchOks = 0]
    /\ UNCHANGED <<scraperStatus, files, stopRequested>>

\* Mutant of CdStopProgress: the record points past the unit.
CdStopProgressPast(i) == [currentIndex |-> i + 1]

\* line 100: the record persisted when the stop signal is seen at unit i.
CdStopProgress(i) == [currentIndex |-> i]

\* lines 90-106: the loop condition and the stop check at the top of unit i.
CdLoopTop ==
    /\ run.pc = "top"
    /\ IF run.i >= Len(run.stores)
       THEN /\ run' = [run EXCEPT !.pc = "completed",
                          !.sse = CdRouteEvents(run.viaRoute, "completed"),
                          !.ends = Append(@, [how |-> "completed", at |-> run.i])]
            /\ UNCHANGED progressStore
       ELSE IF CdStopSignal
       THEN /\ progressStore' = saveProgress(progressStore, CdName, CdStopProgress(run.i))
            /\ run' = [run EXCEPT !.pc = "stopped",
                          !.sse = CdRouteEvents(run.viaRoute, "stopped"),
                          !.ends = Append(@, [how |-> "stopped", at |-> run.i])]
       ELSE /\ run' = [run EXCEPT !.pc = "attempt", !.retries = 0, !.tries = 0,
                                  !.fetchOks = 0, !.last = run.i]
            /\ UNCHANGED progressStore
    /\ UNCHANGED <<scraperStatus, files, stopRequested>>

\* Mutant of CdShouldRetry: the loop gives up after two failures.
CdShouldRetryTwice(retries, success) == retries < 2 /\ ~success

\* line 108: the condition of the retry loop.
CdShouldRetry(retries, success) == retries < 3 /\ ~success

\* lines 108-205: one pass of the retry loop for unit i.  "fetchFail": goto,
\* waitForSelector or $$eval throws; "writeFail": writeJson throws after the
\* push; "ok": nothing throws.
CdAttempt(outcome) ==
    /\ run.pc = "attempt"
    /\ LET store == run.stores[run.i + 1]
           pushed == IF outcome = "fetchFail" THEN run.allStores
                     ELSE Append(run.allStores, store)
           success == outcome = "ok"
           retries == IF success THEN run.retries ELSE run.retries + 1
           again == CdShouldRetry(retries, success)
       IN /\ files' = IF success THEN [files EXCEPT ![CdOutputFile] = File(pushed)]
                      ELSE files
          /\ progressStore' =
                IF success \/ retries = 3
                THEN saveProgress(progressStore, CdName, [currentIndex |-> run.i + 1])
                ELSE progressStore
          /\ run' = [run EXCEPT
                        !.allStores = pushed,
                        !.retries = retries,
                        !.tries = @ + 1,
                        !.fetchOks = IF outcome = "fetchFail" THEN @ ELSE @ + 1,
                        !.failures = IF success THEN @ ELSE 1,
                        !.fetched = @ \cup {run.i},
                        !.i = IF again THEN @ ELSE @ + 1,
                        !.pc = IF again THEN "attempt" ELSE "top"]
    /\ UNCHANGED <<scraperStatus, stopRequested>>

\* The caller's stopSignal() starts or stops returning true.
CdSetStop ==
    /\ stopRequested' = ~stopRequested
    /\ UNCHANGED <<progressStore, scraperStatus, files, run>>

CdNext ==
    \/ \E viaRoute \in BOOLEAN, chromium \in BOOLEAN : CdStart(viaRoute, chromium)
    \/ CdLoopTop
    \/ \E outcome \in CdOutcomes : CdAttempt(outcome)
    \/ CdSetStop

SpecCiteezenDetails == CdInit /\ [][CdNext]_vars

----------------------------------------------------------------------------
(* Claims about scrapeCiteezenDetails *)

\* The run history says: a first run over the whole input was stopped after k
\* units (0 < k < NumStores), a second run then ran to completion, and no
\* attempt of either run failed.
CdStoppedThenCompleted ==
    /\ run.pc = "completed"
    /\ Len(run.ends) = 2
    /\ run.ends[1].how = "stopped"
    /\ run.ends[1].at \in 1..(NumStores - 1)
    /\ run.failures = 0

\* C1: idempotent resume.  After a run stopped after k units (0 < k < N) and
\* a second run to completion, with every fetch succeeding, the set of stores
\* in the output file equals the set an uninterrupted run produces, which is
\* the whole input.
C1_IdempotentResume ==
    CdStoppedThenCompleted => Range(files[CdOutputFile].data) = Range(CdInput)

\* C4: when the stop signal is seen at the top of unit i, the persisted
\* progress record is {currentIndex: i}, unit i is not fetched, and no unit
\* with an index >= i has been fetched in that run.
C4_StopPointsAtUnit ==
    run.pc = "stopped" =>
        /\ progressStore[CdName] = [currentIndex |-> run.i]
        /\ \A u \in run.fetched : u < run.i

\* Witness of C4: a run stopped at a unit after having fetched earlier units.
C4_Witness == run.pc = "stopped" /\ run.i > 0 /\ run.fetched # {}

\* C8: retry exhaustion.  A unit whose fetch failed on every attempt is left
\* only after exactly 3 attempts (never a 4th); then the progress record is
\* {currentIndex: i + 1}, the accumulator holds no record of the unit, and the
\* loop is at unit i + 1.
C8_RetryExhaustion ==
    /\ (run.pc = "attempt" /\ run.fetchOks = 0) => run.tries < 3
    /\ (run.pc = "top" /\ run.tries > 0 /\ run.fetchOks = 0) =>
          /\ run.tries = 3
          /\ progressStore[CdName] = [currentIndex |-> run.last + 1]
          /\ run.stores[run.last + 1] \notin Range(run.allStores)
          /\ run.i = run.last + 1

\* Witness of C8: a unit was just given up after three failed fetches.
C8_Witness == run.pc = "top" /\ run.tries = 3 /\ run.fetchOks = 0

\* The last call threw because the input file is missing.
CdInputMissing ==
    /\ run.pc = "failed"
    /\ run.ends[Len(run.ends)].how = "failed"

\* C11: setup-fatal.  When the input file is missing, the call throws before
\* any unit is fetched, the output file is as it was before the call, and the
\* stream of the route carries exactly one `error` event and no `end` event.
C11_SetupFatal ==
    CdInputMissing =>
        /\ run.fetched = {}
        /\ files[CdOutputFile] = run.before
        /\ run.viaRoute => run.sse = <<"error">>

\* Witness of C11: GET was called with an output of earlier runs in place and
\* no input file.
C11_Witness ==
    CdInputMissing /\ run.viaRoute /\ files[CdOutputFile].exists

----------------------------------------------------------------------------
(* thekgolf.js: scrapeTheKgolf.  A shop is [name, shopId]; shopId 0 stands  *)
(* for a missing shopId.                                                   *)

TkId == "thekgolf"
TkInputFile == "thekgolf_shops.json"
TkOutputFile == "thekgolf_stores_detailed.json"

\* The input list; the shop at position noId (if any) has no shopId.
TkInput(noId) == [j \in 1..TkNumShops |-> [name |-> j, shopId |-> IF j = noId THEN 0 ELSE j]]

\* "details": the response has shopDetail and the output is written;
\* "writeFail": it has shopDetail and writeJson throws (caught, lines 139-141);
\* "noDetails": the response has no shopDetail; "error": axios.post throws.
TkOutcomes == {"details", "writeFail", "noDetails", "error"}

TkIdle == [pc |-> "idle", shopIndex |-> 0, shops |-> <<>>, detailedShops |-> <<>>,
           runs |-> 0, done |-> 0, ends |-> <<>>, faults |-> 0, skipped |-> FALSE]

TkInit ==
    /\ progressStore = InitProgress
    /\ scraperStatus = InitStatus
    /\ \E present \in BOOLEAN, noId \in 0..TkNumShops :
          files = [f \in FileNames |->
                     IF f = TkInputFile /\ present THEN File(TkInput(noId)) ELSE NoFile]
    /\ stopRequested = FALSE
    /\ run = TkIdle

\* lines 25-77: set the status, read the progress record, load both files.
TkStart ==
    /\ run.pc \in {"idle", "completed", "stopped", "failed"}
    /\ run.runs < MaxRuns
    /\ progressStore' = readProgressStore(progressStore, TkId)
    /\ LET progress == readProgress(progressStore, TkId)
           currentShopIndex == FieldOr(progress, "currentShopIndex", 0)
       IN IF ~files[TkInputFile].exists
          THEN /\ scraperStatus' = setScraperStatus(scraperStatus, TkId, "stopped")
               /\ run' = [run EXCEPT !.pc = "failed", !.runs = @ + 1, !.done = 0,
                             !.ends = Append(@, [how |-> "failed", at |-> 0])]
          ELSE /\ scraperStatus' = setScraperStatus(scraperStatus, TkId, "running")
               /\ run' = [run EXCEPT
                             !.pc = "top", !.runs = @ + 1, !.done = 0,
                             !.shopIndex = currentShopIndex,
                             !.shops = files[TkInputFile].data,
                             !.detailedShops = files[TkOutputFile].data]
    /\ UNCHANGED <<files, stopRequested>>

\* Mutant of TkStopProgress: the record points past the unit.
TkStopProgressPast(shopIndex) == [currentShopIndex |-> shopIndex + 1]

\* line 88: the record persisted when the stop is seen at unit shopIndex.
TkStopProgress(shopIndex) == [currentShopIndex |-> shopIndex]

\* lines 80-96 and 160-181: the loop condition, the stop check and the shopId
\* check at the top of a unit; after the loop, the final write and the reset.
TkLoopTop(writeOk) ==
    /\ run.pc = "top"
    /\ IF run.shopIndex >= Len(run.shops)
       THEN /\ files' = IF writeOk THEN [files EXCEPT ![TkOutputFile] = File(run.detailedShops)]
                        ELSE files
            /\ scraperStatus' = resetScraper(scraperStatus, TkId)
            /\ run' = [run EXCEPT !.pc = "completed",
                          !.faults = IF writeOk THEN @ ELSE @ + 1,
                          !.ends = Append(@, [how |-> "completed", at |-> run.done])]
            /\ writeOk \/ run.faults < MaxFaults
            /\ UNCHANGED progressStore
       ELSE IF getScraperStatus(scraperStatus, TkId) = "stopped"
       THEN /\ writeOk
            /\ progressStore' = saveProgress(progressStore, TkId, TkStopProgress(run.shopIndex))
            /\ scraperStatus' = resetScraper(scraperStatus, TkId)
            /\ run' = [run EXCEPT !.pc = "stopped",
                          !.ends = Append(@, [how |-> "stopped", at |-> run.done])]
            /\ UNCHANGED files
       ELSE IF run.shops[run.shopIndex + 1].shopId = 0
       THEN /\ writeOk
            /\ run' = [run EXCEPT !.shopIndex = @ + 1, !.skipped = TRUE]
            /\ UNCHANGED <<progressStore, scraperStatus, files>>
       ELSE /\ writeOk
            /\ run' = [run EXCEPT !.pc = "fetch"]
            /\ UNCHANGED <<progressStore, scraperStatus, files>>
    /\ UNCHANGED stopRequested

\* lines 98-157: the request for unit shopIndex and what follows it.
TkFetch(outcome) ==
    /\ run.pc = "fetch"
    /\ outcome = "details" \/ run.faults < MaxFaults
    /\ LET shop == run.shops[run.shopIndex + 1]
           pushed == IF outcome \in {"details", "writeFail"}
                     THEN Append(run.detailedShops, shop.shopId)
                     ELSE run.detailedShops
       IN /\ files' = IF outcome = "details"
                      THEN [files EXCEPT ![TkOutputFile] = File(pushed)]
                      ELSE files
          /\ progressStore' = saveProgress(progressStore, TkId,
                [currentShopIndex |-> IF outcome = "error" THEN run.shopIndex
                                      ELSE run.shopIndex + 1])
          /\ run' = [run EXCEPT !.detailedShops = pushed,
                                !.shopIndex = @ + 1,
                                !.done = @ + 1,
                                !.faults = IF outcome = "details" THEN @ ELSE @ + 1,
                                !.pc = "top"]
    /\ UNCHANGED <<scraperStatus, stopRequested>>

\* A caller of scraperController.js asks the job to stop.
TkStop ==
    /\ scraperStatus' = stopScraper(scraperStatus, TkId)
    /\ UNCHANGED <<progressStore, files, stopRequested, run>>

TkNext ==
    \/ TkStart
    \/ \E writeOk \in BOOLEAN : TkLoopTop(writeOk)
    \/ \E outcome \in TkOutcomes : TkFetch(outcome)
    \/ TkStop

SpecTheKgolf == TkInit /\ [][TkNext]_vars

----------------------------------------------------------------------------
(* Claims about scrapeTheKgolf *)

\* C3: cancellation scenario.  With every shop having a shopId and returning
\* details: a run in which the stop is seen after 3 completed units ends with
\* the progress record {currentShopIndex: 3}; an uninterrupted run leaves one
\* record per shop in the output; and a second run to completion after that
\* stop leaves the same number of records.
C3_CancellationScenario ==
    (run.faults = 0 /\ ~run.skipped) =>
        /\ (run.pc = "stopped" /\ Len(run.ends) = 1 /\ run.done = 3) =>
              progressStore[TkId] = [currentShopIndex |-> 3]
        /\ (run.pc = "completed" /\ Len(run.ends) = 1) =>
              Len(files[TkOutputFile].data) = TkNumShops
        /\ (run.pc = "completed" /\ Len(run.ends) = 2
              /\ run.ends[1] = [how |-> "stopped", at |-> 3]) =>
              Len(files[TkOutputFile].data) = TkNumShops

\* Witness of C3: stopped after the 3rd unit, then resumed to completion.
C3_Witness ==
    /\ run.faults = 0
    /\ ~run.skipped
    /\ run.pc = "completed"
    /\ Len(run.ends) = 2
    /\ run.ends[1] = [how |-> "stopped", at |-> 3]
    /\ run.done = TkNumShops - 3

----------------------------------------------------------------------------
(* sggolf_detail.js: scrapeSggolfDetail.  The input file is also the output *)
(* file; data[p + 1] tells whether the entry at position p has its details *)
(* and run.links[p + 1] is the link of that entry, a store's link being its *)
(* position in the input.                                                   *)

SgId == "sggolf_detail"
SgFile == "sggolf_stores.json"

\* line 153
SgConcurrencyLimit == 5

\* "updated": fetchStoreDetails returns the merged store; "null": it returns
\* null (bad link, or an error it caught); "throw": browser.newPage() throws.
SgOutcomes == {"updated", "null", "throw"}

\* Mutant of SgActive: the slot is released before the delay.
SgActiveUntilDelay == {"stopping", "fetching", "failing"}

\* The phases of a unit task in which it holds a slot of pLimit.
SgActive == {"stopping", "fetching", "failing", "sleeping"}

SgIdle == [pc |-> "idle", completed |-> 0, data |-> <<>>, links |-> <<>>,
           storesToUpdate |-> <<>>,
           tasks |-> <<>>, progress |-> Absent, browserOpen |-> FALSE,
           runs |-> 0, faults |-> 0, stops |-> 0]

\* The injected failures and the stop requests of the behaviour so far.
SgEvents == run.faults + run.stops

SgInit ==
    /\ progressStore = InitProgress
    /\ scraperStatus = InitStatus
    /\ \E present \in BOOLEAN :
          files = [f \in FileNames |->
                     IF f = SgFile /\ present
                     THEN File([j \in 1..SgNumStores |-> FALSE]) ELSE NoFile]
    /\ stopRequested = FALSE
    /\ run = SgIdle

\* line 183: data.slice(completed).filter(...), each store as its position.
SgStoresToUpdate(data, completed) ==
    SelectSeq([j \in 1..(IF completed < Len(data) THEN Len(data) - completed ELSE 0)
                    |-> completed + j - 1],
                LAMBDA p : ~data[p + 1])

\* lines 142-190: set the status, read the progress record and the input,
\* select the stores to update.  One invocation per behaviour.
SgStart ==
    /\ run.pc = "idle"
    /\ scraperStatus' = setScraperStatus(scraperStatus, SgId, "running")
    /\ progressStore' = readProgressStore(progressStore, SgId)
    /\ LET progress == readProgress(progressStore, SgId)
           completed == FieldOr(progress, "completed", 0)
           data == files[SgFile].data
           storesToUpdate == SgStoresToUpdate(data, completed)
       IN IF ~files[SgFile].exists
          THEN run' = [run EXCEPT !.pc = "failed", !.runs = @ + 1, !.tasks = <<>>]
          ELSE IF Len(storesToUpdate) = 0
          THEN run' = [run EXCEPT !.pc = "nothing", !.runs = @ + 1, !.tasks = <<>>]
          ELSE run' = [run EXCEPT
                          !.pc = "launching", !.runs = @ + 1,
                          !.completed = completed, !.data = data,
                          !.links = [j \in 1..Len(data) |-> j - 1],
                          !.storesToUpdate = storesToUpdate,
                          !.tasks = <<>>, !.progress = progress]
    /\ UNCHANGED <<files, stopRequested>>

\* lines 193-252: the browser is up; every store gets a task queued on pLimit.
SgLaunch ==
    /\ run.pc = "launching"
    /\ run' = [run EXCEPT !.pc = "running", !.browserOpen = TRUE,
                          !.tasks = [j \in 1..Len(run.storesToUpdate) |-> "queued"]]
    /\ UNCHANGED <<progressStore, scraperStatus, files, stopRequested>>

\* A limiter that admits a task while `limit` tasks hold a slot.
PLimitMayStartAtLimit(tasks, index, active, limit) ==
    /\ index < Len(tasks)
    /\ tasks[index + 1] = "queued"
    /\ \A j \in 1..index : tasks[j] # "queued"
    /\ CountIn(tasks, active) <= limit

\* pLimit: a queued task starts when every task queued before it has started
\* and fewer than `limit` tasks hold a slot.
PLimitMayStart(tasks, index, active, limit) ==
    /\ index < Len(tasks)
    /\ tasks[index + 1] = "queued"
    /\ \A j \in 1..index : tasks[j] # "queued"
    /\ CountIn(tasks, active) < limit

\* Promise.all(promises) has settled: rejected by a task that threw, or
\* fulfilled because every task is done.
SgSettled ==
    \/ CountIn(run.tasks, {"thrown"}) > 0
    \/ CountIn(run.tasks, {"done"}) = Len(run.tasks)

\* A continuation is ready to run: the event loop runs it before it takes any
\* timer, I/O completion or incoming request.
SgMicrotaskPending ==
    \/ \E index \in 0..(SgNumStores - 1) :
          PLimitMayStart(run.tasks, index, SgActive, SgConcurrencyLimit)
    \/ CountIn(run.tasks, {"stopping"}) > 0
    \/ run.pc = "running" /\ SgSettled

\* lines 206-219: the task of storesToUpdate[index] starts and polls the
\* status; on 'stopped' it persists {completed: completed + index}.
SgTaskStart(index) ==
    /\ PLimitMayStart(run.tasks, index, SgActive, SgConcurrencyLimit)
    /\ IF getScraperStatus(scraperStatus, SgId) = "stopped"
       THEN /\ progressStore' = saveProgress(progressStore, SgId,
                                     [completed |-> run.completed + index])
            /\ run' = [run EXCEPT !.tasks[index + 1] = "stopping"]
       ELSE /\ run' = [run EXCEPT !.tasks[index + 1] =
                                     IF run.browserOpen THEN "fetching" ELSE "failing"]
            /\ UNCHANGED progressStore
    /\ UNCHANGED <<scraperStatus, files, stopRequested>>

\* lines 212-213: after the save, the task resets the status and throws.
SgTaskThrow(index) ==
    /\ index < Len(run.tasks)
    /\ run.tasks[index + 1] = "stopping"
    /\ scraperStatus' = resetScraper(scraperStatus, SgId)
    /\ run' = [run EXCEPT !.tasks[index + 1] = "thrown"]
    /\ UNCHANGED <<progressStore, files, stopRequested>>

\* lines 220-245: fetchStoreDetails has settled for the task; the store is
\* merged into data, the progress record advanced and the file written.
SgTaskFetched(index, outcome) ==
    /\ index < Len(run.tasks)
    /\ run.tasks[index + 1] \in {"fetching", "failing"}
    /\ ~SgMicrotaskPending
    /\ run.tasks[index + 1] = "failing" => outcome = "throw"
    /\ (outcome # "updated" /\ run.browserOpen) => SgEvents < SgMaxEvents
    /\ LET data == IF outcome = "updated"
                   THEN [run.data EXCEPT ![run.completed + index + 1] = TRUE]
                   ELSE run.data
           links == IF outcome = "updated"
                    THEN [run.links EXCEPT ![run.completed + index + 1] =
                                                run.storesToUpdate[index + 1]]
                    ELSE run.links
           progress == SetField(run.progress, "completed", run.completed + index + 1)
       IN IF outcome = "throw"
          THEN /\ run' = [run EXCEPT !.tasks[index + 1] = "sleeping",
                                     !.faults = IF run.browserOpen THEN @ + 1 ELSE @]
               /\ UNCHANGED <<progressStore, files>>
          ELSE /\ run' = [run EXCEPT !.tasks[index + 1] = "sleeping",
                                     !.data = data, !.links = links,
                                     !.progress = progress,
                                     !.faults = IF outcome = "null" /\ run.browserOpen
                                                THEN @ + 1 ELSE @]
               /\ progressStore' = saveProgress(progressStore, SgId, progress)
               /\ files' = [files EXCEPT ![SgFile] = File(data)]
    /\ UNCHANGED <<scraperStatus, stopRequested>>

\* lines 247-249: the delay is over and the task releases its slot.
SgTaskDone(index) ==
    /\ index < Len(run.tasks)
    /\ run.tasks[index + 1] = "sleeping"
    /\ ~SgMicrotaskPending
    /\ run' = [run EXCEPT !.tasks[index + 1] = "done"]
    /\ UNCHANGED <<progressStore, scraperStatus, files, stopRequested>>

\* lines 252-271: Promise.all has settled and the function goes on to close
\* the browser.
SgSettle ==
    /\ run.pc = "running"
    /\ SgSettled
    /\ run' = [run EXCEPT !.browserOpen = FALSE,
                  !.pc = IF CountIn(run.tasks, {"thrown"}) > 0
                         THEN "closingStopped" ELSE "closingCompleted"]
    /\ UNCHANGED <<progressStore, scraperStatus, files, stopRequested>>

\* lines 271-274: the browser is closed; the status is reset and the function
\* returns.
SgFinish ==
    /\ run.pc \in {"closingStopped", "closingCompleted"}
    /\ ~SgMicrotaskPending
    /\ run' = [run EXCEPT !.pc = IF run.pc = "closingStopped" THEN "stopped"
                                  ELSE "completed"]
    /\ scraperStatus' = resetScraper(scraperStatus, SgId)
    /\ UNCHANGED <<progressStore, files, stopRequested>>

\* A caller of scraperController.js asks the running job to stop.
SgStop ==
    /\ getScraperStatus(scraperStatus, SgId) = "running"
    /\ SgEvents < SgMaxEvents
    /\ ~SgMicrotaskPending
    /\ scraperStatus' = stopScraper(scraperStatus, SgId)
    /\ run' = [run EXCEPT !.stops = @ + 1]
    /\ UNCHANGED <<progressStore, files, stopRequested>>

SgNext ==
    \/ SgStart
    \/ SgLaunch
    \/ \E index \in 0..(SgNumStores - 1) :
          \/ SgTaskStart(index)
          \/ SgTaskThrow(index)
          \/ \E outcome \in SgOutcomes : SgTaskFetched(index, outcome)
          \/ SgTaskDone(index)
    \/ SgSettle
    \/ SgFinish
    \/ SgStop

SpecSggolfDetail == SgInit /\ [][SgNext]_vars

----------------------------------------------------------------------------
(* Claims about scrapeSggolfDetail *)

\* C2: no-skip invariant.  If the persisted progress record is {completed: c}
\* then every unit of the run whose position is below c has finished
\* processing: none of them is still queued or in flight.
C2_NoSkip ==
    \A index \in 0..(Len(run.tasks) - 1) :
        run.completed + index < FieldOr(progressStore[SgId], "completed", 0)
            => run.tasks[index + 1] \in {"sleeping", "done"}

\* C17: at every instant at most CONCURRENCY_LIMIT = 5 unit tasks are in
\* flight (started and not yet ended), however many stores are to update.
C17_ConcurrencyBound == CountIn(run.tasks, SgActive) <= SgConcurrencyLimit

\* The limit binds: five tasks are in flight while another one is queued.
C17_Witness ==
    /\ CountIn(run.tasks, SgActive) = SgConcurrencyLimit
    /\ CountIn(run.tasks, {"queued"}) > 0

----------------------------------------------------------------------------
(* gncgolf.js: scrapeGncGolf.  A store is its position on the list page.    *)

GncId == "gncgolf"
GncOutputFile == "gncgolf_stores.jsonl"

\* line 26
GncConcurrencyLimit == 5

\* The phases of a unit task in which it holds a slot of pLimit.
GncActive == {"stopping", "fetching", "failed"}

GncIdle == [pc |-> "idle", completed |-> 0, storesToProcess |-> <<>>, tasks |-> <<>>,
            currentIndex |-> <<>>, isStopping |-> FALSE, runs |-> 0, faults |-> 0,
            stopSeen |-> FALSE, late |-> {}, fetched |-> {}]

GncInit ==
    /\ progressStore = InitProgress
    /\ scraperStatus = InitStatus
    /\ files = [f \in FileNames |-> NoFile]
    /\ stopRequested = FALSE
    /\ run = GncIdle

\* lines 57-77: set the status, read the progress record, launch the browser.
GncStart ==
    /\ run.pc \in {"idle", "completed", "stopped", "failed"}
    /\ CountIn(run.tasks, GncActive \cup {"queued"}) = 0
    /\ run.runs < MaxRuns
    /\ scraperStatus' = setScraperStatus(scraperStatus, GncId, "running")
    /\ progressStore' = readProgressStore(progressStore, GncId)
    /\ run' = [run EXCEPT
                  !.pc = "loading", !.runs = @ + 1,
                  !.completed = FieldOr(readProgress(progressStore, GncId), "completed", 0),
                  !.tasks = <<>>, !.currentIndex = <<>>, !.isStopping = FALSE,
                  !.stopSeen = FALSE, !.late = {}, !.fetched = {}]
    /\ UNCHANGED <<files, stopRequested>>

\* lines 82-157: the list page is loaded and its stores extracted (or that
\* throws, which ends the function at line 222); stores.slice(completed) is
\* queued on pLimit.
GncLaunch(loaded) ==
    /\ run.pc = "loading"
    /\ loaded \/ run.faults < MaxFaults
    /\ LET n == IF run.completed < GncNumStores THEN GncNumStores - run.completed ELSE 0
       IN run' = IF loaded
                 THEN [run EXCEPT !.pc = "running",
                          !.storesToProcess = [j \in 1..n |-> run.completed + j - 1],
                          !.tasks = [j \in 1..n |-> "queued"],
                          !.currentIndex = [j \in 1..n |-> 0]]
                 ELSE [run EXCEPT !.pc = "failed", !.faults = @ + 1]
    /\ UNCHANGED <<progressStore, scraperStatus, files, stopRequested>>

\* Promise.all(promises) has settled.
GncSettled ==
    \/ CountIn(run.tasks, {"thrown"}) > 0
    \/ CountIn(run.tasks, {"done"}) = Len(run.tasks)

\* A continuation is ready to run before the event loop takes anything else.
GncMicrotaskPending ==
    \/ \E index \in 0..(GncNumStores - 1) :
          PLimitMayStart(run.tasks, index, GncActive, GncConcurrencyLimit)
    \/ CountIn(run.tasks, {"stopping", "fetching"}) > 0
    \/ run.pc = "running" /\ GncSettled

\* lines 157-174: the task of storesToProcess[index] starts: it computes
\* currentIndex from the present value of completed and polls the status.
GncTaskStart(index) ==
    /\ PLimitMayStart(run.tasks, index, GncActive, GncConcurrencyLimit)
    /\ LET currentIndex == run.completed + index
           others == {j \in 0..(Len(run.tasks) - 1) : j # index /\ run.tasks[j + 1] = "queued"}
       IN IF getScraperStatus(scraperStatus, GncId) = "stopped" /\ ~run.isStopping
          THEN /\ progressStore' = saveProgress(progressStore, GncId,
                                        [completed |-> currentIndex])
               /\ run' = [run EXCEPT !.tasks[index + 1] = "stopping",
                                     !.currentIndex[index + 1] = currentIndex,
                                     !.isStopping = TRUE,
                                     !.stopSeen = TRUE,
                                     !.late = IF run.stopSeen THEN @ ELSE others]
          ELSE /\ run' = [run EXCEPT !.tasks[index + 1] = "fetching",
                                     !.currentIndex[index + 1] = currentIndex,
                                     !.fetched = @ \cup {index}]
               /\ UNCHANGED progressStore
    /\ UNCHANGED <<scraperStatus, files, stopRequested>>

\* lines 168-169: after the save, the task resets the status and throws.
GncTaskThrow(index) ==
    /\ index < Len(run.tasks)
    /\ run.tasks[index + 1] = "stopping"
    /\ scraperStatus' = resetScraper(scraperStatus, GncId)
    /\ run' = [run EXCEPT !.tasks[index + 1] = "thrown"]
    /\ UNCHANGED <<progressStore, files, stopRequested>>

\* Mutant of GncIncrement: the counter is derived from the index the task
\* computed when it started.
GncIncrementFromIndex(completed, currentIndex) == currentIndex + 1

\* line 180: `completed += 1` under the mutex, on the shared variable.
GncIncrement(completed, currentIndex) == completed + 1

\* lines 174-195: fetchStoreDetails returns the store; it is appended to the
\* output and, under the mutex, completed is incremented and persisted.  If
\* the append throws, {completed: currentIndex} is persisted instead.  The
\* tasks run the same chain of continuations, so they get here in the order
\* in which they started, and not before pLimit has started the tasks that
\* found a free slot when they were queued.
GncTaskCommit(index, appended) ==
    /\ index < Len(run.tasks)
    /\ run.tasks[index + 1] = "fetching"
    /\ \A j \in 1..index : run.tasks[j] # "fetching"
    /\ \A j \in 1..Len(run.tasks) : j <= GncConcurrencyLimit => run.tasks[j] # "queued"
    /\ appended \/ run.faults < GncMaxFaults
    /\ IF appended
       THEN /\ files' = [files EXCEPT ![GncOutputFile] =
                            File(Append(@.data, run.storesToProcess[index + 1]))]
            /\ LET completed == GncIncrement(run.completed, run.currentIndex[index + 1])
               IN /\ progressStore' = saveProgress(progressStore, GncId,
                                           [completed |-> completed])
                  /\ run' = [run EXCEPT !.tasks[index + 1] = "done",
                                        !.completed = completed]
       ELSE /\ progressStore' = saveProgress(progressStore, GncId,
                                     [completed |-> run.currentIndex[index + 1]])
            /\ run' = [run EXCEPT !.tasks[index + 1] = "failed", !.faults = @ + 1]
            /\ UNCHANGED files
    /\ UNCHANGED <<scraperStatus, stopRequested>>

\* lines 193-194: the error is in the error log; the task ends.
GncTaskLogged(index) ==
    /\ index < Len(run.tasks)
    /\ run.tasks[index + 1] = "failed"
    /\ ~GncMicrotaskPending
    /\ run' = [run EXCEPT !.tasks[index + 1] = "done"]
    /\ UNCHANGED <<progressStore, scraperStatus, files, stopRequested>>

\* lines 199-216: Promise.all has settled and the function goes on to close
\* the browser.
GncSettle ==
    /\ run.pc = "running"
    /\ GncSettled
    /\ run' = [run EXCEPT !.pc = IF CountIn(run.tasks, {"thrown"}) > 0
                                 THEN "closingStopped" ELSE "closingCompleted"]
    /\ UNCHANGED <<progressStore, scraperStatus, files, stopRequested>>

\* lines 216-221: the browser is closed; the status is reset and the function
\* returns.
GncFinish ==
    /\ run.pc \in {"closingStopped", "closingCompleted"}
    /\ ~GncMicrotaskPending
    /\ run' = [run EXCEPT !.pc = IF run.pc = "closingStopped" THEN "stopped"
                                  ELSE "completed"]
    /\ scraperStatus' = resetScraper(scraperStatus, GncId)
    /\ UNCHANGED <<progressStore, files, stopRequested>>

\* A caller of scraperController.js asks the running job to stop.
GncStop ==
    /\ getScraperStatus(scraperStatus, GncId) = "running"
    /\ ~GncMicrotaskPending
    /\ scraperStatus' = stopScraper(scraperStatus, GncId)
    /\ UNCHANGED <<progressStore, files, stopRequested, run>>

GncNext ==
    \/ GncStart
    \/ \E loaded \in BOOLEAN : GncLaunch(loaded)
    \/ \E index \in 0..(GncNumStores - 1) :
          \/ GncTaskStart(index)
          \/ GncTaskThrow(index)
          \/ \E appended \in BOOLEAN : GncTaskCommit(index, appended)
          \/ GncTaskLogged(index)
    \/ GncSettle
    \/ GncFinish
    \/ GncStop

SpecGncGolf == GncInit /\ [][GncNext]_vars

----------------------------------------------------------------------------
(* Claims about scrapeGncGolf *)

\* C5: once a unit task has observed the status 'stopped', no unit task that
\* had not started at that moment fetches or appends a record.
C5_NoWorkAfterStop == run.late \cap run.fetched = {}

----------------------------------------------------------------------------
(* fieldzone.js: scrapeFieldzone.  The site has FzNumPages list pages of     *)
(* FzPageSize stores; a store is its position in that listing.              *)

FzNumPages == 2     \* list pages of the site
FzPageSize == 6     \* stores on a list page
FzMaxEvents == 1    \* injected failures and stop requests in one behaviour

FzId == "fieldzone"
FzOutputFile == "parongolf_stores.json"

\* line 34
FzConcurrencyLimit == 5

\* line 35
FzMaxPage == 100

\* What the load and extraction of a list page (lines 97-145) comes to.
FzPageOutcomes == {"stores", "empty", "fail"}

\* The phases of a processStore task in which it holds a slot of pLimit.
FzActive == {"stopping", "writing", "sleeping"}

FzIdle == [pc |-> "idle", pageNum |-> 0, allStores |-> <<>>, tasks |-> <<>>,
           snaps |-> <<>>, progress |-> Absent, firstError |-> "none",
           cause |-> "none", result |-> "none", runs |-> 0, faults |-> 0,
           stops |-> 0, stoppedIn |-> 0]

\* The failures and stop requests injected so far.
FzEvents == run.faults + run.stops

FzInit ==
    /\ progressStore = InitProgress
    /\ scraperStatus = InitStatus
    /\ files = [f \in FileNames |-> NoFile]
    /\ stopRequested = FALSE
    /\ run = FzIdle

\* lines 25-67: set the status, import p-limit (a failing import sets the
\* status to 'stopped' and rejects), read the progress record and the output
\* of earlier runs.
FzStart(imported) ==
    /\ run.pc \in {"idle", "ended"}
    /\ CountIn(run.tasks, FzActive \cup {"queued"}) = 0
    /\ run.runs < MaxRuns
    /\ imported \/ FzEvents < FzMaxEvents
    /\ IF imported
       THEN /\ scraperStatus' = setScraperStatus(scraperStatus, FzId, "running")
            /\ progressStore' = readProgressStore(progressStore, FzId)
            /\ LET progress == readProgress(progressStore, FzId)
                   currentPage == FieldOr(progress, "currentPage", 0)
               IN run' = [run EXCEPT
                             !.pc = "page", !.runs = @ + 1,
                             !.pageNum = IF currentPage = 0 THEN 1 ELSE currentPage,
                             !.allStores = IF files[FzOutputFile].exists
                                           THEN files[FzOutputFile].data ELSE <<>>,
                             !.tasks = <<>>, !.snaps = <<>>, !.progress = progress,
                             !.firstError = "none", !.cause = "none", !.result = "none"]
       ELSE /\ scraperStatus' = setScraperStatus(scraperStatus, FzId, "stopped")
            /\ run' = [run EXCEPT !.pc = "ended", !.runs = @ + 1, !.faults = @ + 1,
                                  !.tasks = <<>>, !.snaps = <<>>, !.firstError = "none",
                                  !.cause = "setup", !.result = "rejected"]
            /\ UNCHANGED progressStore
    /\ UNCHANGED <<files, stopRequested>>

\* A continuation is ready to run: the event loop runs it before it takes any
\* timer, I/O completion or incoming request.
FzSettled ==
    \/ CountIn(run.tasks, {"thrown"}) > 0
    \/ CountIn(run.tasks, {"done"}) = Len(run.tasks)

FzMicrotaskPending ==
    \/ \E index \in 0..(FzPageSize - 1) :
          PLimitMayStart(run.tasks, index, FzActive, FzConcurrencyLimit)
    \/ CountIn(run.tasks, {"stopping"}) > 0
    \/ run.pc = "batch" /\ FzSettled

\* lines 70-93: the head of the page loop.  On 'stopped' the position is
\* persisted and ScraperStoppedError is thrown outside the inner try: the
\* catch of line 225 gets it, and its call of the undefined ogError throws
\* a ReferenceError, which rejects the promise of scrapeFieldzone.
FzPageTop ==
    /\ run.pc = "page"
    /\ ~FzMicrotaskPending
    /\ IF run.pageNum > FzMaxPage
       THEN /\ run' = [run EXCEPT !.pc = "afterLoop", !.cause = "exhausted"]
            /\ UNCHANGED progressStore
       ELSE IF getScraperStatus(scraperStatus, FzId) = "stopped"
       THEN /\ progressStore' = saveProgress(progressStore, FzId,
                                     [currentPage |-> run.pageNum])
            /\ run' = [run EXCEPT !.pc = "ended", !.cause = "stop",
                                  !.result = "rejected"]
       ELSE /\ run' = [run EXCEPT !.pc = "loading"]
            /\ UNCHANGED progressStore
    /\ UNCHANGED <<scraperStatus, files, stopRequested>>

\* lines 95-180: the page is loaded and its stores extracted; each store gets
\* a processStore task queued on pLimit.  A page past the last one has no
\* stores, or no list at all (waitForSelector times out).
FzPageLoaded(outcome) ==
    /\ run.pc = "loading"
    /\ ~FzMicrotaskPending
    /\ IF run.pageNum <= FzNumPages
       THEN outcome = "stores" \/ FzEvents < FzMaxEvents
       ELSE outcome # "stores"
    /\ LET faults == IF run.pageNum <= FzNumPages /\ outcome # "stores"
                     THEN run.faults + 1 ELSE run.faults
       IN run' = CASE outcome = "stores" ->
                        [run EXCEPT !.pc = "batch",
                                    !.tasks = [j \in 1..FzPageSize |-> "queued"],
                                    !.snaps = [j \in 1..FzPageSize |-> 0],
                                    !.firstError = "none"]
                   [] outcome = "empty" ->
                        [run EXCEPT !.pc = "closingDone", !.faults = faults]
                   [] outcome = "fail" ->
                        [run EXCEPT !.pc = "closingError", !.faults = faults]
    /\ UNCHANGED <<progressStore, scraperStatus, files, stopRequested>>

\* The store at position index of list page pageNum.
FzStore(pageNum, index) == (pageNum - 1) * FzPageSize + index + 1

\* lines 156-170: processStore starts for the store at position index: it
\* polls the status; on 'stopped' it persists {currentPage: pageNum},
\* otherwise it pushes the store and starts writing allStores to the output.
FzTaskStart(index) ==
    /\ PLimitMayStart(run.tasks, index, FzActive, FzConcurrencyLimit)
    /\ IF getScraperStatus(scraperStatus, FzId) = "stopped"
       THEN /\ progressStore' = saveProgress(progressStore, FzId,
                                     [currentPage |-> run.pageNum])
            /\ run' = [run EXCEPT !.tasks[index + 1] = "stopping"]
       ELSE /\ run' = [run EXCEPT
                          !.tasks[index + 1] = "writing",
                          !.allStores = Append(@, FzStore(run.pageNum, index)),
                          !.snaps[index + 1] = Len(run.allStores) + 1]
            /\ UNCHANGED progressStore
    /\ UNCHANGED <<scraperStatus, files, stopRequested>>

\* line 162: after the save, the task throws ScraperStoppedError.
FzTaskThrow(index) ==
    /\ index < Len(run.tasks)
    /\ run.tasks[index + 1] = "stopping"
    /\ run' = [run EXCEPT !.tasks[index + 1] = "thrown",
                          !.firstError = IF @ = "none" THEN "stop" ELSE @]
    /\ UNCHANGED <<progressStore, scraperStatus, files, stopRequested>>

\* lines 170-174: fs.writeJson has settled.  The file holds allStores as it
\* was serialised when the write was issued; a failing write throws out of
\* processStore.
FzTaskWritten(index, written) ==
    /\ index < Len(run.tasks)
    /\ run.tasks[index + 1] = "writing"
    /\ ~FzMicrotaskPending
    /\ written \/ FzEvents < FzMaxEvents
    /\ IF written
       THEN /\ files' = [files EXCEPT ![FzOutputFile] =
                            File(SubSeq(run.allStores, 1, run.snaps[index + 1]))]
            /\ run' = [run EXCEPT !.tasks[index + 1] = "sleeping"]
       ELSE /\ run' = [run EXCEPT !.tasks[index + 1] = "thrown",
                                  !.faults = @ + 1,
                                  !.firstError = IF @ = "none" THEN "error" ELSE @]
            /\ UNCHANGED files
    /\ UNCHANGED <<progressStore, scraperStatus, stopRequested>>

\* lines 174-175: the delay is over and the task releases its slot.
FzTaskDone(index) ==
    /\ index < Len(run.tasks)
    /\ run.tasks[index + 1] = "sleeping"
    /\ ~FzMicrotaskPending
    /\ run' = [run EXCEPT !.tasks[index + 1] = "done"]
    /\ UNCHANGED <<progressStore, scraperStatus, files, stopRequested>>

\* lines 183-204: Promise.all has settled.  Fulfilled: the progress record is
\* advanced to the next page and the paging link looked up.  Rejected: the
\* inner catch closes the browser.
FzSettle ==
    /\ run.pc = "batch"
    /\ FzSettled
    /\ IF CountIn(run.tasks, {"thrown"}) > 0
       THEN /\ run' = [run EXCEPT !.pc = IF run.firstError = "stop"
                                         THEN "closingStopped" ELSE "closingError"]
            /\ UNCHANGED progressStore
       ELSE LET progress == SetField(run.progress, "currentPage", run.pageNum + 1)
            IN /\ progressStore' = saveProgress(progressStore, FzId, progress)
               /\ run' = [run EXCEPT !.progress = progress,
                                     !.pc = IF run.pageNum < FzNumPages
                                            THEN "closingNext" ELSE "closingDone"]
    /\ UNCHANGED <<scraperStatus, files, stopRequested>>

\* lines 149-150, 194-215: the browser is closed.  With a next page the loop
\* goes on after the delay; a break leaves the loop and line 215 reads the
\* status; any other error is rethrown to the catch of line 225, whose call
\* of the undefined ogError rejects the promise of scrapeFieldzone.
FzClosed ==
    /\ run.pc \in {"closingNext", "closingDone", "closingStopped", "closingError"}
    /\ ~FzMicrotaskPending
    /\ run' = CASE run.pc = "closingNext" ->
                       [run EXCEPT !.pc = "page", !.pageNum = @ + 1]
                [] run.pc = "closingError" ->
                       [run EXCEPT !.pc = "ended", !.cause = "error",
                                   !.result = "rejected"]
                [] OTHER ->
                       LET cause == IF run.pc = "closingStopped"
                                    THEN "stop" ELSE "exhausted"
                       IN IF getScraperStatus(scraperStatus, FzId) = "stopped"
                          THEN [run EXCEPT !.pc = "ended", !.cause = cause,
                                           !.result = "resolved",
                                           !.stoppedIn = IF cause = "stop"
                                                         THEN run.pageNum ELSE @]
                          ELSE [run EXCEPT !.pc = "afterLoop", !.cause = cause]
    /\ UNCHANGED <<progressStore, scraperStatus, files, stopRequested>>

\* lines 216-224: the status was not 'stopped': it is reset and the function
\* returns.
FzFinish ==
    /\ run.pc = "afterLoop"
    /\ ~FzMicrotaskPending
    /\ scraperStatus' = resetScraper(scraperStatus, FzId)
    /\ run' = [run EXCEPT !.pc = "ended", !.result = "resolved"]
    /\ UNCHANGED <<progressStore, files, stopRequested>>

\* A caller of scraperController.js asks the running job to stop.
FzStop ==
    /\ ~FzMicrotaskPending
    /\ FzEvents < FzMaxEvents
    /\ getScraperStatus(scraperStatus, FzId) = "running"
    /\ scraperStatus' = stopScraper(scraperStatus, FzId)
    /\ run' = [run EXCEPT !.stops = @ + 1]
    /\ UNCHANGED <<progressStore, files, stopRequested>>

FzNext ==
    \/ \E imported \in BOOLEAN : FzStart(imported)
    \/ FzPageTop
    \/ \E outcome \in FzPageOutcomes : FzPageLoaded(outcome)
    \/ \E index \in 0..(FzPageSize - 1) :
          \/ FzTaskStart(index)
          \/ FzTaskThrow(index)
          \/ \E written \in BOOLEAN : FzTaskWritten(index, written)
          \/ FzTaskDone(index)
    \/ FzSettle
    \/ FzClosed
    \/ FzFinish
    \/ FzStop

SpecFieldzone == FzInit /\ [][FzNext]_vars

----------------------------------------------------------------------------
(* Claims about scrapeFieldzone *)

\* C6: when a stop was detected inside a page batch, scrapeFieldzone does not
\* return while a processStore task of that batch still has its write to the
\* output outstanding.
C6_InFlightFinishBeforeStopped ==
    (run.pc = "ended" /\ run.cause = "stop" /\ run.result = "resolved")
        => CountIn(run.tasks, {"writing"}) = 0

\* C10: a failure while fetching or processing a page never aborts the job:
\* the run ends only by exhaustion of the enumeration or by cancellation
\* (or, before any page, by the failing import of p-limit).
C10_PageFailureNeverAborts ==
    run.pc = "ended" => run.cause \in {"exhausted", "stop", "setup"}

\* C14: after a run of scrapeFieldzone has ended because of a stop, the
\* progress record points at the page that was being processed and the
\* status of 'fieldzone' is idle.
C14_StoppedRetainsProgressAndIdle ==
    (run.pc = "ended" /\ run.cause = "stop") =>
        /\ FieldOr(progressStore[FzId], "currentPage", 0) = run.pageNum
        /\ getScraperStatus(scraperStatus, FzId) = "idle"

----------------------------------------------------------------------------
(* okgolf.js: scrapeOkongolf.  The function has no caller under src and     *)
(* takes no lock, so up to OkMaxActive invocations run side by side, each   *)
(* with its own locals in run.inv[r].  A row is its position in the         *)
(* listing.  processedIndexes is an object shared by reference between the  *)
(* progress records and the invocations that read it from them: run.heap    *)
(* holds these objects (page -> the indexes pushed; only includes() reads   *)
(* the arrays, so an array is kept as the set of its elements), and a       *)
(* progress record holds the position of its object in run.heap.            *)
(* run.appended is the set of the rows pushed to an accumulator so far and  *)
(* run.again the set of the rows pushed when they had been pushed before.   *)

OkMaxActive == 2    \* invocations of scrapeOkongolf that may be active at once
OkPageSize == 2     \* rows on a list page
OkMaxEvents == 1    \* injected failures, invalid rows and stop requests in one behaviour
OkBatchSize == 6    \* rows on a list page of the undisturbed run

OkId == "okongolf_store"
OkOutputFile == "okongolf_stores.json"

\* line 41
OkConcurrencyLimit == 5

\* line 42
OkMaxPage == 2

OkSlots == 1..OkMaxActive

\* What the load and extraction of a list page (lines 102-145) comes to.
OkPageOutcomes == {"rows", "empty", "fail"}

\* The phases of a processStore task in which it holds a slot of pLimit.
OkActive == {"stopping", "writing", "sleeping"}

\* The phases of an invocation that has been called and has not settled.
OkRunning == {"setup", "page", "topStopping", "loading", "batch", "pageSleep",
              "finishing"}

OkIdleInv == [pc |-> "idle", pageNum |-> 0, isStopping |-> FALSE,
              processedIndexes |-> 0, progress |-> Absent, allStores |-> <<>>,
              tasks |-> <<>>, snaps |-> <<>>, result |-> "none"]

OkIdle == [inv |-> [r \in OkSlots |-> OkIdleInv],
           heap |-> [o \in 1..MaxRuns |-> [p \in 1..OkMaxPage |-> {}]],
           runs |-> 0, events |-> 0, pageSize |-> OkPageSize, rejected |-> {},
           appended |-> {}, again |-> {}]

OkInit ==
    /\ progressStore = InitProgress
    /\ scraperStatus = InitStatus
    /\ files = [f \in FileNames |-> NoFile]
    /\ stopRequested = FALSE
    /\ run = OkIdle

\* An invocation of slot r is between its call and the settling of its promise.
OkIsActive(r) == run.inv[r].pc \in OkRunning

\* Tasks of slot r that pLimit still has to run or to finish.
OkTasksLeft(r) == CountIn(run.inv[r].tasks, OkActive \cup {"queued"})

\* The row at position index of list page pageNum.
\* Every task of a page is handed the first row of the page.
OkRowFirstOfPage(pageNum, index) == (pageNum - 1) * run.pageSize + 1

OkRow(pageNum, index) == (pageNum - 1) * run.pageSize + index + 1

\* lines 28-51: scrapeOkongolf is called: the status is set to 'running'
\* whatever it was, and the progress record is read.  A record without
\* processedIndexes gives the invocation a new object.  The call takes the
\* lowest free slot.
OkStart(r) ==
    /\ run.inv[r].pc \in {"idle", "ended"}
    /\ OkTasksLeft(r) = 0
    /\ \A q \in OkSlots : q < r => OkIsActive(q) \/ OkTasksLeft(q) > 0
    /\ run.runs < MaxRuns
    /\ scraperStatus' = setScraperStatus(scraperStatus, OkId, "running")
    /\ progressStore' = readProgressStore(progressStore, OkId)
    /\ LET progress == readProgress(progressStore, OkId)
           fresh == run.runs + 1
           shared == FieldOr(progress, "processedIndexes", 0)
       IN run' = [run EXCEPT
                     !.runs = @ + 1,
                     !.inv[r] = [OkIdleInv EXCEPT
                         !.pc = "setup",
                         !.pageNum = FieldOr(progress, "currentPage", 1),
                         !.processedIndexes = IF shared = 0 THEN fresh ELSE shared,
                         !.progress = progress]]
    /\ UNCHANGED <<files, stopRequested>>

\* lines 56-80: the output of earlier runs is read into allStores and the
\* browser launched.
OkLoaded(r) ==
    /\ run.inv[r].pc = "setup"
    /\ run' = [run EXCEPT !.inv[r].pc = "page",
                          !.inv[r].allStores = IF files[OkOutputFile].exists
                                               THEN files[OkOutputFile].data ELSE <<>>]
    /\ UNCHANGED <<progressStore, scraperStatus, files, stopRequested>>

\* Promise.all(tasks) of slot r has settled.
OkSettled(r) ==
    \/ CountIn(run.inv[r].tasks, {"thrown"}) > 0
    \/ CountIn(run.inv[r].tasks, {"done"}) = Len(run.inv[r].tasks)

\* A continuation is ready to run: the event loop runs it before it takes any
\* timer, I/O completion or incoming request.
OkMicrotaskPending ==
    \E r \in OkSlots :
        \/ \E index \in 0..(run.pageSize - 1) :
              PLimitMayStart(run.inv[r].tasks, index, OkActive, OkConcurrencyLimit)
        \/ CountIn(run.inv[r].tasks, {"stopping"}) > 0
        \/ run.inv[r].pc = "topStopping"
        \/ run.inv[r].pc = "batch" /\ OkSettled(r)

\* lines 83-96 and 258: the head of the page loop.  Past MAX_PAGE the loop
\* ends.  On 'stopped' (and not yet stopping) the position is persisted.
OkPageTop(r) ==
    /\ run.inv[r].pc = "page"
    /\ ~OkMicrotaskPending
    /\ LET inv == run.inv[r]
       IN IF inv.pageNum > OkMaxPage
          THEN /\ run' = [run EXCEPT !.inv[r].pc = "finishing"]
               /\ UNCHANGED progressStore
          ELSE IF getScraperStatus(scraperStatus, OkId) = "stopped" /\ ~inv.isStopping
          THEN /\ progressStore' = saveProgress(progressStore, OkId,
                                        [currentPage |-> inv.pageNum,
                                         processedIndexes |-> inv.processedIndexes])
               /\ run' = [run EXCEPT !.inv[r].pc = "topStopping",
                                     !.inv[r].isStopping = TRUE]
          ELSE /\ run' = [run EXCEPT !.inv[r].pc = "loading"]
               /\ UNCHANGED progressStore
    /\ UNCHANGED <<scraperStatus, files, stopRequested>>

\* lines 91-92, 271-273: after the save the status is reset and
\* ScraperStoppedError thrown; the catch of line 271 reads the undefined
\* `store`, a ReferenceError that rejects the promise of scrapeOkongolf.
OkTopThrow(r) ==
    /\ run.inv[r].pc = "topStopping"
    /\ scraperStatus' = resetScraper(scraperStatus, OkId)
    /\ run' = [run EXCEPT !.inv[r].pc = "ended", !.inv[r].result = "rejected"]
    /\ UNCHANGED <<progressStore, files, stopRequested>>

\* lines 102-244: the page is loaded and its rows extracted.  A failing load
\* is logged and the loop continues with the next page; a page without rows
\* ends the loop; otherwise each row gets a processStore task on pLimit.
OkPageLoaded(r, outcome) ==
    /\ run.inv[r].pc = "loading"
    /\ ~OkMicrotaskPending
    /\ outcome = "rows" \/ run.events < OkMaxEvents
    /\ run' = CASE outcome = "rows" ->
                     [run EXCEPT !.inv[r].pc = "batch",
                                 !.inv[r].tasks = [j \in 1..run.pageSize |-> "queued"],
                                 !.inv[r].snaps = [j \in 1..run.pageSize |-> 0]]
                [] outcome = "empty" ->
                     [run EXCEPT !.inv[r].pc = "finishing", !.events = @ + 1]
                [] outcome = "fail" ->
                     [run EXCEPT !.inv[r].pc = "page", !.inv[r].pageNum = @ + 1,
                                 !.events = @ + 1]
    /\ UNCHANGED <<progressStore, scraperStatus, files, stopRequested>>

\* lines 190-193 and 295-334: the four validators of a row, and what they
\* may return for the fields of a row.
OkValidators == {"isValidNumber", "isValidStoreName", "isValidPhoneNumber",
                 "isValidAddress"}

OkChecks == [OkValidators -> BOOLEAN]

\* A row is kept unless the number or the name or the phone fails.
OkRowValidNoAddress(checks) ==
    checks["isValidNumber"] /\ checks["isValidStoreName"] /\ checks["isValidPhoneNumber"]

\* lines 195-198: the row is left out if any validator fails.
OkRowValid(checks) ==
    ~(\/ ~checks["isValidNumber"] \/ ~checks["isValidStoreName"]
      \/ ~checks["isValidPhoneNumber"] \/ ~checks["isValidAddress"])

\* Mutant of OkAlreadyProcessed: no row is taken as processed.
OkAlreadyProcessedNever(heap, processedIndexes, pageNum, index) == FALSE

\* line 166: processedIndexes[pageNum] && processedIndexes[pageNum].includes(storeIndex)
OkAlreadyProcessed(heap, processedIndexes, pageNum, index) ==
    index \in heap[processedIndexes][pageNum]

\* lines 150-212: processStore starts for the row at position index.  It
\* polls the status; a row whose index is in processedIndexes[pageNum] or
\* that fails a validator is left out; otherwise the row is pushed, its index
\* recorded and the write of allStores to the output issued.
OkTaskStart(r, index, checks) ==
    /\ PLimitMayStart(run.inv[r].tasks, index, OkActive, OkConcurrencyLimit)
    /\ LET inv == run.inv[r]
           valid == OkRowValid(checks)
           failed == \E v \in OkValidators : ~checks[v]
           stop == getScraperStatus(scraperStatus, OkId) = "stopped" /\ ~inv.isStopping
           processed == OkAlreadyProcessed(run.heap, inv.processedIndexes,
                                           inv.pageNum, index)
           seen == [run EXCEPT !.events = IF failed THEN @ + 1 ELSE @,
                               !.rejected = IF failed
                                            THEN @ \cup {OkRow(inv.pageNum, index)}
                                            ELSE @]
       IN /\ (stop \/ processed) => ~failed
          /\ failed => run.events < OkMaxEvents
          /\ IF stop
             THEN /\ progressStore' = saveProgress(progressStore, OkId,
                                           [currentPage |-> inv.pageNum,
                                            processedIndexes |-> inv.processedIndexes])
                  /\ run' = [run EXCEPT !.inv[r].tasks[index + 1] = "stopping",
                                        !.inv[r].isStopping = TRUE]
             ELSE /\ UNCHANGED progressStore
                  /\ run' = IF processed
                            THEN [run EXCEPT !.inv[r].tasks[index + 1] = "done"]
                            ELSE IF ~valid
                            THEN [seen EXCEPT !.inv[r].tasks[index + 1] = "done"]
                            ELSE [seen EXCEPT
                                     !.inv[r].tasks[index + 1] = "writing",
                                     !.inv[r].allStores =
                                         Append(@, OkRow(inv.pageNum, index)),
                                     !.inv[r].snaps[index + 1] = Len(inv.allStores) + 1,
                                     !.appended = @ \cup {OkRow(inv.pageNum, index)},
                                     !.again = IF OkRow(inv.pageNum, index) \in run.appended
                                               THEN @ \cup {OkRow(inv.pageNum, index)}
                                               ELSE @,
                                     !.heap[inv.processedIndexes][inv.pageNum] =
                                         @ \cup {index}]
    /\ UNCHANGED <<scraperStatus, files, stopRequested>>

\* lines 160-161: after the save the task resets the status and throws.
OkTaskThrow(r, index) ==
    /\ index < Len(run.inv[r].tasks)
    /\ run.inv[r].tasks[index + 1] = "stopping"
    /\ scraperStatus' = resetScraper(scraperStatus, OkId)
    /\ run' = [run EXCEPT !.inv[r].tasks[index + 1] = "thrown"]
    /\ UNCHANGED <<progressStore, files, stopRequested>>

\* lines 212-225: fs.writeJson has settled (a failure is logged and goes no
\* further); the progress record gets the page and processedIndexes and is
\* saved; the delay starts.
OkTaskWritten(r, index, written) ==
    /\ index < Len(run.inv[r].tasks)
    /\ run.inv[r].tasks[index + 1] = "writing"
    /\ ~OkMicrotaskPending
    /\ written \/ run.events < OkMaxEvents
    /\ LET inv == run.inv[r]
           progress == SetField(SetField(inv.progress, "currentPage", inv.pageNum),
                                "processedIndexes", inv.processedIndexes)
       IN /\ files' = IF written
                      THEN [files EXCEPT ![OkOutputFile] =
                               File(SubSeq(inv.allStores, 1, inv.snaps[index + 1]))]
                      ELSE files
          /\ progressStore' = saveProgress(progressStore, OkId, progress)
          /\ run' = [run EXCEPT !.inv[r].tasks[index + 1] = "sleeping",
                                !.inv[r].progress = progress,
                                !.events = IF written THEN @ ELSE @ + 1]
    /\ UNCHANGED <<scraperStatus, stopRequested>>

\* lines 225-239: the delay is over and the task releases its slot.
OkTaskDone(r, index) ==
    /\ index < Len(run.inv[r].tasks)
    /\ run.inv[r].tasks[index + 1] = "sleeping"
    /\ ~OkMicrotaskPending
    /\ run' = [run EXCEPT !.inv[r].tasks[index + 1] = "done"]
    /\ UNCHANGED <<progressStore, scraperStatus, files, stopRequested>>

\* lines 247-255, 271-273: Promise.all has settled.  Fulfilled: the progress
\* record is advanced to the next page and the delay starts.  Rejected: the
\* catch of line 271 reads the undefined `store`, and the promise of
\* scrapeOkongolf rejects.
OkSettle(r) ==
    /\ run.inv[r].pc = "batch"
    /\ OkSettled(r)
    /\ LET inv == run.inv[r]
           progress == SetField(SetField(inv.progress, "currentPage", inv.pageNum + 1),
                                "processedIndexes", inv.processedIndexes)
       IN IF CountIn(inv.tasks, {"thrown"}) > 0
          THEN /\ run' = [run EXCEPT !.inv[r].pc = "ended",
                                     !.inv[r].result = "rejected"]
               /\ UNCHANGED progressStore
          ELSE /\ progressStore' = saveProgress(progressStore, OkId, progress)
               /\ run' = [run EXCEPT !.inv[r].pc = "pageSleep",
                                     !.inv[r].progress = progress]
    /\ UNCHANGED <<scraperStatus, files, stopRequested>>

\* lines 255-256: the delay between pages is over.
OkPageSlept(r) ==
    /\ run.inv[r].pc = "pageSleep"
    /\ ~OkMicrotaskPending
    /\ run' = [run EXCEPT !.inv[r].pc = "page", !.inv[r].pageNum = @ + 1]
    /\ UNCHANGED <<progressStore, scraperStatus, files, stopRequested>>

\* lines 258-270: the loop is over; the browser is closed, the status reset
\* and the function returns.
OkFinish(r) ==
    /\ run.inv[r].pc = "finishing"
    /\ ~OkMicrotaskPending
    /\ scraperStatus' = resetScraper(scraperStatus, OkId)
    /\ run' = [run EXCEPT !.inv[r].pc = "ended", !.inv[r].result = "resolved"]
    /\ UNCHANGED <<progressStore, files, stopRequested>>

\* A caller of scraperController.js asks the running job to stop.
OkStop ==
    /\ run.events < OkMaxEvents
    /\ getScraperStatus(scraperStatus, OkId) = "running"
    /\ ~OkMicrotaskPending
    /\ scraperStatus' = stopScraper(scraperStatus, OkId)
    /\ run' = [run EXCEPT !.events = @ + 1]
    /\ UNCHANGED <<progressStore, files, stopRequested>>

OkNext ==
    \/ \E r \in OkSlots :
          \/ OkStart(r)
          \/ OkLoaded(r)
          \/ OkPageTop(r)
          \/ OkTopThrow(r)
          \/ \E outcome \in OkPageOutcomes : OkPageLoaded(r, outcome)
          \/ \E index \in 0..(OkPageSize - 1) :
                \/ \E checks \in OkChecks : OkTaskStart(r, index, checks)
                \/ OkTaskThrow(r, index)
                \/ \E written \in BOOLEAN : OkTaskWritten(r, index, written)
                \/ OkTaskDone(r, index)
          \/ OkSettle(r)
          \/ OkPageSlept(r)
          \/ OkFinish(r)
    \/ OkStop

SpecOkongolf == OkInit /\ [][OkNext]_vars

\* scrapeOkongolf left undisturbed: one invocation at a time, list pages of
\* OkBatchSize valid rows, no stop request and no failing load or write.
OkBatchInit ==
    /\ progressStore = InitProgress
    /\ scraperStatus = InitStatus
    /\ files = [f \in FileNames |-> NoFile]
    /\ stopRequested = FALSE
    /\ run = [OkIdle EXCEPT !.pageSize = OkBatchSize, !.events = OkMaxEvents]

OkBatchNext ==
    \/ OkStart(1)
    \/ OkLoaded(1)
    \/ OkPageTop(1)
    \/ OkPageLoaded(1, "rows")
    \/ \E index \in 0..(OkBatchSize - 1) :
          \/ OkTaskStart(1, index, [v \in OkValidators |-> TRUE])
          \/ OkTaskWritten(1, index, TRUE)
          \/ OkTaskDone(1, index)
    \/ OkSettle(1)
    \/ OkPageSlept(1)
    \/ OkFinish(1)

SpecOkongolfBatch == OkBatchInit /\ [][OkBatchNext]_vars

\* scrapeOkongolf with rows that may fail a validator: one invocation at a
\* time, no stop request and no failing load or write.
OkRowsInit ==
    /\ progressStore = InitProgress
    /\ scraperStatus = InitStatus
    /\ files = [f \in FileNames |-> NoFile]
    /\ stopRequested = FALSE
    /\ run = OkIdle

OkRowsNext ==
    \/ OkStart(1)
    \/ OkLoaded(1)
    \/ OkPageTop(1)
    \/ OkPageLoaded(1, "rows")
    \/ \E index \in 0..(OkPageSize - 1) :
          \/ \E checks \in OkChecks : OkTaskStart(1, index, checks)
          \/ OkTaskWritten(1, index, TRUE)
          \/ OkTaskDone(1, index)
    \/ OkSettle(1)
    \/ OkPageSlept(1)
    \/ OkFinish(1)

SpecOkongolfRows == OkRowsInit /\ [][OkRowsNext]_vars

\* scrapeOkongolf called again only when the invocation before it has
\* settled and its processStore tasks have finished, with stop requests and
\* failing loads and writes.
OkResumedNext ==
    \/ OkStart(1)
    \/ OkLoaded(1)
    \/ OkPageTop(1)
    \/ OkTopThrow(1)
    \/ \E outcome \in OkPageOutcomes : OkPageLoaded(1, outcome)
    \/ \E index \in 0..(OkPageSize - 1) :
          \/ OkTaskStart(1, index, [v \in OkValidators |-> TRUE])
          \/ OkTaskThrow(1, index)
          \/ \E written \in BOOLEAN : OkTaskWritten(1, index, written)
          \/ OkTaskDone(1, index)
    \/ OkSettle(1)
    \/ OkPageSlept(1)
    \/ OkFinish(1)
    \/ OkStop

SpecOkongolfResumed == OkRowsInit /\ [][OkResumedNext]_vars

----------------------------------------------------------------------------
(* Claims about scrapeOkongolf *)

\* C7: at most one run of the job 'okongolf_store' is active at any time.
C7_OneRunPerJob == Cardinality({r \in OkSlots : OkIsActive(r)}) <= 1

\* C12: cancellation is not an error.  An invocation of scrapeOkongolf that
\* detected a stop (at the head of the page loop or in a unit task) ends with
\* its promise fulfilled: no exception reaches the caller.
C12_CancellationNotError ==
    \A r \in OkSlots :
        (run.inv[r].pc = "ended" /\ run.inv[r].isStopping)
            => run.inv[r].result = "resolved"

\* C13: flushing.  After a single run of scrapeOkongolf that exhausted the
\* enumeration without a stop, a following readProgress yields the start
\* position, page 1, and the status of 'okongolf_store' is idle.
C13_FlushedOnExhaustion ==
    (run.runs = 1 /\ run.inv[1].pc = "ended" /\ run.inv[1].result = "resolved") =>
        /\ FieldOr(readProgress(progressStore, OkId), "currentPage", 1) = 1
        /\ getScraperStatus(scraperStatus, OkId) = "idle"

\* Each row of a list page is a record of its own, so processing the rows of
\* page pageNum one at a time, in order, appends every row of the page:
\* the rows numbered from the first to the last of the page.
OkSequentialPage(pageNum) == ((pageNum - 1) * run.pageSize + 1)..(pageNum * run.pageSize)

\* C18: concurrency safety.  In a single run without stop and without
\* failure, once the N unit tasks of a page have all finished under pLimit(5),
\* in whatever order their writes completed, the records of the page in the
\* accumulator are those that sequential processing appends.
C18_ConcurrentEqualsSequential ==
    (run.runs = 1 /\ run.inv[1].pc = "pageSleep") =>
        Range(run.inv[1].allStores) \cap OkSequentialPage(run.inv[1].pageNum)
            = OkSequentialPage(run.inv[1].pageNum)

\* The unit tasks of a page of more than five rows overlapped: a write
\* issued earlier completed last, so the output holds an older snapshot
\* than the accumulator.
C18_Witness ==
    /\ run.runs = 1 /\ run.inv[1].pc = "pageSleep"
    /\ Len(run.inv[1].tasks) > OkConcurrencyLimit
    /\ Len(files[OkOutputFile].data) < Len(run.inv[1].allStores)

----------------------------------------------------------------------------
(* citeezon.js: scrapeCiteezen.  The site has CtNumPages list pages of       *)
(* CtPageSize stores; a store is its link, its position in the listing.     *)

CtNumPages == 3     \* list pages of the site
CtPageSize == 2     \* stores on a list page

CtName == "citeezon"
CtOutputFile == "citeezon_stores.json"

\* line 74
CtMaxPage == 100

\* What lines 88-141 come to for a page: its stores are extracted and
\* written, it has no stores, the load or the extraction throws, or the
\* write of the output throws.
CtOutcomes == {"stores", "empty", "fetchFail", "writeFail"}

\* The pages a run can get to: a page past the last one is left behind only
\* by a failing request.
CtPages == 1..(CtNumPages + MaxFaults + 1)

CtIdle == [pc |-> "idle", pageNum |-> 0, allStores |-> <<>>, runs |-> 0,
           faults |-> 0, tries |-> [p \in CtPages |-> 0],
           skipped |-> {}, how |-> "none", emptyAt |-> 0]

CtInit ==
    /\ progressStore = InitProgress
    /\ scraperStatus = InitStatus
    /\ files = [f \in FileNames |-> NoFile]
    /\ stopRequested = FALSE
    /\ run = CtIdle

\* The stores of list page pageNum.
CtStoresOf(pageNum) == [k \in 1..CtPageSize |-> (pageNum - 1) * CtPageSize + k]

\* Mutant of CtMerge: every store of the page is pushed.
CtMergeAll(allStores, stores) == allStores \o stores

\* lines 123-130: each store whose link no store of allStores has is pushed.
RECURSIVE CtMerge(_, _)
CtMerge(allStores, stores) ==
    IF stores = <<>> THEN allStores
    ELSE CtMerge(IF Head(stores) \in Range(allStores)
                 THEN allStores ELSE Append(allStores, Head(stores)),
                 Tail(stores))

\* lines 24-71: read the progress record, launch the browser (without the
\* Chromium executable the function throws), read the output of earlier runs.
CtStart(launched) ==
    /\ run.pc \in {"idle", "ended"}
    /\ run.runs < MaxRuns
    /\ launched \/ run.faults < MaxFaults
    /\ progressStore' = readProgressStore(progressStore, CtName)
    /\ LET currentPage == FieldOr(readProgress(progressStore, CtName), "currentPage", 0)
       IN run' = IF launched
                 THEN [run EXCEPT
                          !.pc = "top", !.runs = @ + 1, !.how = "none",
                          !.pageNum = IF currentPage = 0 THEN 1 ELSE currentPage,
                          !.allStores = IF files[CtOutputFile].exists
                                        THEN files[CtOutputFile].data ELSE <<>>,
                          !.tries = [p \in CtPages |-> 0],
                          !.skipped = {}, !.emptyAt = 0]
                 ELSE [run EXCEPT !.pc = "ended", !.runs = @ + 1, !.faults = @ + 1,
                                  !.how = "threw", !.emptyAt = 0]
    /\ UNCHANGED <<scraperStatus, files, stopRequested>>

\* lines 74-88: the head of the page loop: past page 100 the loop ends; if
\* stopSignal() holds, {currentPage: pageNum} is persisted and the function
\* returns; otherwise the page is requested.
CtLoopTop ==
    /\ run.pc = "top"
    /\ IF run.pageNum > CtMaxPage
       THEN /\ run' = [run EXCEPT !.pc = "ended", !.how = "completed"]
            /\ UNCHANGED progressStore
       ELSE IF stopRequested
       THEN /\ progressStore' = saveProgress(progressStore, CtName,
                                     [currentPage |-> run.pageNum])
            /\ run' = [run EXCEPT !.pc = "ended", !.how = "stopped"]
       ELSE /\ run' = [run EXCEPT !.pc = "fetching",
                                  !.tries[run.pageNum] = @ + 1]
            /\ UNCHANGED progressStore
    /\ UNCHANGED <<scraperStatus, files, stopRequested>>

\* A page without stores is passed over and the loop goes on.
CtEmptyPageContinue(r) ==
    [r EXCEPT !.pc = "top", !.pageNum = @ + 1, !.emptyAt = r.pageNum]

\* lines 114-117 and 150-171: a page without stores breaks out of the loop;
\* the browser is closed and the function returns.
CtEmptyPage(r) ==
    [r EXCEPT !.pc = "ended", !.how = "completed", !.emptyAt = r.pageNum]

\* lines 88-147: the page request has settled.  Stores are merged into
\* allStores, the output written, {currentPage: pageNum + 1} persisted and
\* the loop goes on after the delay.  A page without stores ends the loop.
\* Anything thrown is logged by the catch of line 142, which persists
\* {currentPage: pageNum + 1}; the loop goes on with the next page.
CtPage(outcome) ==
    /\ run.pc = "fetching"
    /\ IF run.pageNum <= CtNumPages
       THEN outcome = "stores" \/ run.faults < MaxFaults
       ELSE outcome = "empty" \/ (outcome = "fetchFail" /\ run.faults < MaxFaults)
    /\ LET merged == CtMerge(run.allStores, CtStoresOf(run.pageNum))
           faults == IF outcome = "stores" \/ (run.pageNum > CtNumPages /\ outcome = "empty")
                     THEN run.faults ELSE run.faults + 1
           next == [currentPage |-> run.pageNum + 1]
       IN CASE outcome = "stores" ->
                 /\ files' = [files EXCEPT ![CtOutputFile] = File(merged)]
                 /\ progressStore' = saveProgress(progressStore, CtName, next)
                 /\ run' = [run EXCEPT !.pc = "top", !.pageNum = @ + 1,
                                       !.allStores = merged]
            [] outcome = "empty" ->
                 /\ run' = [CtEmptyPage(run) EXCEPT !.faults = faults]
                 /\ UNCHANGED <<progressStore, files>>
            [] outcome = "fetchFail" ->
                 /\ progressStore' = saveProgress(progressStore, CtName, next)
                 /\ run' = [run EXCEPT !.pc = "top", !.pageNum = @ + 1,
                                       !.faults = faults,
                                       !.skipped = @ \cup {run.pageNum}]
                 /\ UNCHANGED files
            [] outcome = "writeFail" ->
                 /\ progressStore' = saveProgress(progressStore, CtName, next)
                 /\ run' = [run EXCEPT !.pc = "top", !.pageNum = @ + 1,
                                       !.allStores = merged, !.faults = faults]
                 /\ UNCHANGED files
    /\ UNCHANGED <<scraperStatus, stopRequested>>

\* The caller's stopSignal() starts or stops returning true.
CtSetStop ==
    /\ stopRequested' = ~stopRequested
    /\ UNCHANGED <<progressStore, scraperStatus, files, run>>

CtNext ==
    \/ \E launched \in BOOLEAN : CtStart(launched)
    \/ CtLoopTop
    \/ \E outcome \in CtOutcomes : CtPage(outcome)
    \/ CtSetStop

SpecCiteezen == CtInit /\ [][CtNext]_vars

----------------------------------------------------------------------------
(* Claims about scrapeCiteezen *)

\* C9: a page whose fetch or extraction fails is skipped, and the progress
\* record advanced past it, only after it has been requested three times.
C9_PageRetriedBeforeSkipped == \A p \in run.skipped : run.tries[p] >= 3

\* C19: termination.  A page request that yields zero stores ends the
\* enumeration without error: the run has ended as completed, no page after
\* that one has been requested, and the step that found the page empty left
\* the accumulator, the output and the progress record as they were.
C19_EmptyPageEndsRun ==
    /\ [](run.emptyAt # 0 =>
            /\ run.pc = "ended" /\ run.how = "completed"
            /\ run.pageNum = run.emptyAt
            /\ \A p \in CtPages : p > run.emptyAt => run.tries[p] = 0)
    /\ [][(run.emptyAt = 0 /\ run'.emptyAt # 0) =>
              /\ run'.allStores = run.allStores
              /\ files' = files
              /\ progressStore' = progressStore]_vars

\* An empty page was met after pages whose stores were collected.
C19_Witness ==
    /\ run.emptyAt > 1
    /\ run.pc = "ended"
    /\ Len(run.allStores) > 0

----------------------------------------------------------------------------
(* golfzone.js: scrapeGolfzone, started by GET of the scrape_golfzone route
   and stopped by its POST.  Store i of region r is the number
   r * GzStoresPerRegion + i + 1, which is also its storeName. *)

GzNumRegions == 2        \* entries of regionsList
GzStoresPerRegion == 2   \* result rows of one region search

GzName == "golfzone"

GzId == "scrape_golfzone"

GzOutputFile == "golfzone_stores.json"

GzStoreOf(regionIndex, i) == regionIndex * GzStoresPerRegion + i + 1

\* regionsProgress[k] || 0 of a JavaScript array held as a sequence.
GzAt(regionsProgress, k) ==
    IF k + 1 \in DOMAIN regionsProgress THEN regionsProgress[k + 1] ELSE 0

\* The array after regionsProgress.push(v): the entry k is left as it was.
GzSetAtPush(regionsProgress, k, v) == Append(regionsProgress, v)

\* The array after regionsProgress[k] = v; an index past the end lengthens
\* the array, and the holes read as 0 through GzAt.
GzSetAt(regionsProgress, k, v) ==
    [j \in 1..(IF k + 1 > Len(regionsProgress) THEN k + 1 ELSE Len(regionsProgress)) |->
        IF j = k + 1 THEN v ELSE GzAt(regionsProgress, j - 1)]

\* removeDuplicates: the first record of every storeName, in order.
removeDuplicates(stores) ==
    LET kept == {j \in 1..Len(stores) : \A k \in 1..(j - 1) : stores[k] # stores[j]}
    IN  [n \in 1..Cardinality(kept) |->
            stores[CHOOSE j \in kept : Cardinality({k \in kept : k <= j}) = n]]

GzSetups == {"ok", "noChromium", "gotoFail"}

GzStoreOutcomes == {"ok", "noName", "detailFail"}

GzIdle == [pc |-> "idle", regionIndex |-> 0, i |-> 0, allStores |-> <<>>,
           appended |-> {}, cause |-> "none", sse |-> <<>>, runs |-> 0, faults |-> 0]

GzInit ==
    /\ progressStore = InitProgress
    /\ scraperStatus = InitStatus
    /\ files = [f \in FileNames |-> NoFile]
    /\ stopRequested = FALSE
    /\ run = GzIdle

\* The progress record of the run: the object readProgress returned, which
\* every saveProgress of the run stores again.
GzProgress == progressStore[GzName]

\* route.js 54-69 and golfzone.js 140-212: GET marks the job running and
\* calls scrapeGolfzone, which reads the progress and the output file.  A
\* missing Chromium is thrown to the route (event error); a failing page.goto
\* is logged by the catch of line 407 (event end).  Both leave through the
\* finally of the route, which marks the job idle.
GzStart(setup) ==
    /\ run.pc \in {"idle", "ended"}
    /\ run.runs < MaxRuns
    /\ setup = "ok" \/ run.faults < MaxFaults
    /\ progressStore' = readProgressStore(progressStore, GzName)
    /\ IF setup = "ok"
       THEN /\ scraperStatus' = setScraperStatus(scraperStatus, GzId, "running")
            /\ run' = [run EXCEPT !.pc = "regionTop",
                          !.regionIndex = progressStore'[GzName].lastProcessedRegionIndex,
                          !.allStores = files[GzOutputFile].data,
                          !.cause = "none", !.sse = <<>>, !.runs = @ + 1]
       ELSE /\ scraperStatus' = setScraperStatus(scraperStatus, GzId, "idle")
            /\ run' = [run EXCEPT !.pc = "ended", !.cause = setup,
                          !.allStores = IF setup = "gotoFail"
                                        THEN files[GzOutputFile].data ELSE <<>>,
                          !.sse = IF setup = "gotoFail" THEN <<"end">> ELSE <<"error">>,
                          !.runs = @ + 1, !.faults = @ + 1]
    /\ UNCHANGED <<files, stopRequested>>

\* lines 218-256: the head of the region loop and the search of the region.
\* A failing search persists lastProcessedRegionIndex = regionIndex + 1 and
\* goes on with the next region.
GzRegionTop(found) ==
    /\ run.pc = "regionTop"
    /\ run.regionIndex < GzNumRegions
    /\ found \/ run.faults < MaxFaults
    /\ IF found
       THEN /\ run' = [run EXCEPT !.pc = "storeTop",
                          !.i = GzAt(GzProgress.regionsProgress, run.regionIndex)]
            /\ UNCHANGED progressStore
       ELSE /\ progressStore' = saveProgress(progressStore, GzName,
                 SetField(GzProgress, "lastProcessedRegionIndex", run.regionIndex + 1))
            /\ run' = [run EXCEPT !.regionIndex = @ + 1, !.faults = @ + 1]
    /\ UNCHANGED <<scraperStatus, files, stopRequested>>

\* lines 258-269 and 378-388: the head of the store loop.  A stop persists
\* regionsProgress[regionIndex] = i and returns; the route sends end and
\* marks the job idle.  After the last row the region is done and
\* lastProcessedRegionIndex = regionIndex + 1 is persisted.
GzStoreTop ==
    /\ run.pc = "storeTop"
    /\ IF run.i >= GzStoresPerRegion
       THEN /\ progressStore' = saveProgress(progressStore, GzName,
                 SetField(GzProgress, "lastProcessedRegionIndex", run.regionIndex + 1))
            /\ run' = [run EXCEPT !.pc = "regionTop", !.regionIndex = @ + 1]
            /\ UNCHANGED scraperStatus
       ELSE IF getScraperStatus(scraperStatus, GzId) = "stopped"
       THEN /\ progressStore' = saveProgress(progressStore, GzName,
                 SetField(GzProgress, "regionsProgress",
                          GzSetAt(GzProgress.regionsProgress, run.regionIndex, run.i)))
            /\ scraperStatus' = setScraperStatus(scraperStatus, GzId, "idle")
            /\ run' = [run EXCEPT !.pc = "ended", !.cause = "stop", !.sse = <<"end">>]
       ELSE /\ run' = [run EXCEPT !.pc = "store"]
            /\ UNCHANGED <<progressStore, scraperStatus>>
    /\ UNCHANGED <<files, stopRequested>>

\* lines 271-376: one row.  A row without a name is passed over by continue;
\* a collected row is pushed to allStores and regionsProgress[regionIndex] =
\* i + 1 persisted; a failure of the detail view persists the same position.
GzStore(outcome) ==
    /\ run.pc = "store"
    /\ outcome = "ok" \/ run.faults < MaxFaults
    /\ LET store == GzStoreOf(run.regionIndex, run.i)
           next == SetField(GzProgress, "regionsProgress",
                            GzSetAt(GzProgress.regionsProgress, run.regionIndex, run.i + 1))
       IN CASE outcome = "ok" ->
                 /\ progressStore' = saveProgress(progressStore, GzName, next)
                 /\ run' = [run EXCEPT !.pc = "storeTop", !.i = @ + 1,
                               !.allStores = Append(@, store),
                               !.appended = @ \cup {store}]
            [] outcome = "noName" ->
                 /\ run' = [run EXCEPT !.pc = "storeTop", !.i = @ + 1, !.faults = @ + 1]
                 /\ UNCHANGED progressStore
            [] outcome = "detailFail" ->
                 /\ progressStore' = saveProgress(progressStore, GzName, next)
                 /\ run' = [run EXCEPT !.pc = "storeTop", !.i = @ + 1, !.faults = @ + 1]
    /\ UNCHANGED <<scraperStatus, files, stopRequested>>

\* lines 391-406 and route.js 57-69: after the last region the duplicates are
\* removed and the output written, the only write of the function; a failing
\* write is logged.  The route sends end and marks the job idle.
GzFinish(written) ==
    /\ run.pc = "regionTop"
    /\ run.regionIndex >= GzNumRegions
    /\ written \/ run.faults < MaxFaults
    /\ files' = IF written
                THEN [files EXCEPT ![GzOutputFile] = File(removeDuplicates(run.allStores))]
                ELSE files
    /\ scraperStatus' = setScraperStatus(scraperStatus, GzId, "idle")
    /\ run' = [run EXCEPT !.pc = "ended", !.cause = "completed", !.sse = <<"end">>,
                  !.allStores = removeDuplicates(@),
                  !.faults = IF written THEN @ ELSE @ + 1]
    /\ UNCHANGED <<progressStore, stopRequested>>

\* route.js 77-91: POST {action: 'stop'}.
GzStop ==
    /\ getScraperStatus(scraperStatus, GzId) # "stopped"
    /\ scraperStatus' = setScraperStatus(scraperStatus, GzId, "stopped")
    /\ UNCHANGED <<progressStore, files, stopRequested, run>>

GzNext ==
    \/ \E setup \in GzSetups : GzStart(setup)
    \/ \E found \in BOOLEAN : GzRegionTop(found)
    \/ GzStoreTop
    \/ \E outcome \in GzStoreOutcomes : GzStore(outcome)
    \/ \E written \in BOOLEAN : GzFinish(written)
    \/ GzStop

SpecGolfzone == GzInit /\ [][GzNext]_vars

\* The steps of a run of scrapeGolfzone that is under way.  Every one of them
\* ends: each waits for a page operation with a timeout or for a delay.
GzStep ==
    \/ \E found \in BOOLEAN : GzRegionTop(found)
    \/ GzStoreTop
    \/ \E outcome \in GzStoreOutcomes : GzStore(outcome)
    \/ \E written \in BOOLEAN : GzFinish(written)

SpecGolfzoneFair == SpecGolfzone /\ WF_vars(GzStep)

----------------------------------------------------------------------------
(* Claims about scrapeGolfzone *)

\* C15: when a run has ended, by completion or by cancellation, every store
\* appended to the accumulator is in the output file.
C15_AppendedIsPersisted ==
    run.pc = "ended" => run.appended \subseteq Range(files[GzOutputFile].data)

----------------------------------------------------------------------------
(* publicgolf_basic.js: scrapePublicgolfBasic.  Row `index` of page pageNum
   is the store PbStore(pageNum, index). *)

PbPageSize == 3          \* li.gall_item rows of a list page

PbId == "publicgcreengolf_store"

PbOutputFile == "publicgcreengolf_stores.json"

PbConcurrencyLimit == 5

PbMaxPage == 1

PbStore(pageNum, index) == (pageNum - 1) * PbPageSize + index + 1

PbPageOutcomes == {"stores", "empty", "loadFail"}

PbIdle == [pc |-> "idle", pageNum |-> 1, processedPages |-> {}, allStores |-> <<>>,
           tasks |-> <<>>, cause |-> "none", result |-> "none", runs |-> 0, faults |-> 0]

PbInit ==
    /\ progressStore = InitProgress
    /\ scraperStatus = InitStatus
    /\ files = [f \in FileNames |-> NoFile]
    /\ stopRequested = FALSE
    /\ run = PbIdle

\* A continuation is ready to run (a queued task that pLimit may start, or
\* the settled Promise.all): the event loop runs it before it takes any
\* timer, I/O completion or incoming request.
PbMicrotaskPending ==
    \/ \E index \in 0..(PbPageSize - 1) :
          PLimitMayStart(run.tasks, index, {"fetching"}, PbConcurrencyLimit)
    \/ /\ run.pc = "batch"
       /\ \/ CountIn(run.tasks, {"thrown"}) > 0
          \/ CountIn(run.tasks, {"done"}) = Len(run.tasks)

\* lines 256-308: the job is marked running, the progress record read
\* (currentPage and processedPages default to 1 and {}), the output file
\* loaded into allStores and the browser launched; a failing launch is
\* outside the try and rejects the promise.
PbStart(launched) ==
    /\ run.pc \in {"idle", "ended"}
    /\ run.runs < MaxRuns
    /\ launched \/ run.faults < MaxFaults
    /\ scraperStatus' = setScraperStatus(scraperStatus, PbId, "running")
    /\ progressStore' = readProgressStore(progressStore, PbId)
    /\ run' = [run EXCEPT
                  !.pc = IF launched THEN "page" ELSE "ended",
                  !.pageNum = FieldOr(progressStore'[PbId], "currentPage", 1),
                  !.processedPages = FieldOr(progressStore'[PbId], "processedPages", {}),
                  !.allStores = files[PbOutputFile].data,
                  !.tasks = <<>>,
                  !.cause = IF launched THEN "none" ELSE "launch",
                  !.result = IF launched THEN "none" ELSE "rejected",
                  !.runs = @ + 1,
                  !.faults = IF launched THEN @ ELSE @ + 1]
    /\ UNCHANGED <<files, stopRequested>>

\* lines 311-331: the head of the page loop.  On 'stopped' the position is
\* persisted, the status reset and ScraperStoppedError thrown to the catch
\* of line 452, whose call of the undefined ogError throws a ReferenceError
\* that rejects the promise.  A page marked in processedPages is passed over.
PbPageTop ==
    /\ run.pc = "page"
    /\ run.pageNum <= PbMaxPage
    /\ ~PbMicrotaskPending
    /\ IF getScraperStatus(scraperStatus, PbId) = "stopped"
       THEN /\ progressStore' = saveProgress(progressStore, PbId,
                 [currentPage |-> run.pageNum, processedPages |-> run.processedPages])
            /\ scraperStatus' = resetScraper(scraperStatus, PbId)
            /\ run' = [run EXCEPT !.pc = "ended", !.cause = "stop", !.result = "rejected"]
       ELSE /\ run' = IF run.pageNum \in run.processedPages
                      THEN [run EXCEPT !.pageNum = @ + 1]
                      ELSE [run EXCEPT !.pc = "loading"]
            /\ UNCHANGED <<progressStore, scraperStatus>>
    /\ UNCHANGED <<files, stopRequested>>

\* lines 333-421: the list page has loaded.  A failing load is logged and the
\* loop goes on with the next page; a page without rows ends the loop; the
\* rows are handed as `stores` to collectDetail under pLimit.
PbPageLoaded(outcome) ==
    /\ run.pc = "loading"
    /\ ~PbMicrotaskPending
    /\ outcome = "stores" \/ run.faults < MaxFaults
    /\ run' = CASE outcome = "stores" ->
                     [run EXCEPT !.pc = "batch",
                                 !.tasks = [j \in 1..PbPageSize |-> "queued"]]
                [] outcome = "empty" ->
                     [run EXCEPT !.pc = "afterLoop", !.faults = @ + 1]
                [] outcome = "loadFail" ->
                     [run EXCEPT !.pc = "page", !.pageNum = @ + 1, !.faults = @ + 1]
    /\ UNCHANGED <<progressStore, scraperStatus, files, stopRequested>>

\* lines 387-395: collectDetail starts for the row at position index and
\* polls the status; on 'stopped' it throws ScraperStoppedError.
PbTaskStart(index) ==
    /\ PLimitMayStart(run.tasks, index, {"fetching"}, PbConcurrencyLimit)
    /\ run' = [run EXCEPT !.tasks[index + 1] =
                  IF getScraperStatus(scraperStatus, PbId) = "stopped"
                  THEN "thrown" ELSE "fetching"]
    /\ UNCHANGED <<progressStore, scraperStatus, files, stopRequested>>

\* lines 396-416: the detail page is read into the fields of the row object
\* (a failure is logged), and the task ends after the delay.  The row object
\* is not pushed to allStores.
PbTaskDone(index) ==
    /\ index < Len(run.tasks)
    /\ run.tasks[index + 1] = "fetching"
    /\ ~PbMicrotaskPending
    /\ run' = [run EXCEPT !.tasks[index + 1] = "done"]
    /\ UNCHANGED <<progressStore, scraperStatus, files, stopRequested>>

\* lines 423-430 and 452-454: Promise.all has settled.  Fulfilled: the page
\* is marked in processedPages and the record with currentPage = pageNum + 1
\* persisted.  Rejected: the catch of line 452 calls the undefined ogError,
\* and the promise of scrapePublicgolfBasic rejects.
PbSettle ==
    /\ run.pc = "batch"
    /\ \/ CountIn(run.tasks, {"thrown"}) > 0
       \/ CountIn(run.tasks, {"done"}) = Len(run.tasks)
    /\ IF CountIn(run.tasks, {"thrown"}) > 0
       THEN /\ run' = [run EXCEPT !.pc = "ended", !.cause = "stop",
                                  !.result = "rejected", !.tasks = <<>>]
            /\ UNCHANGED progressStore
       ELSE LET processedPages == run.processedPages \cup {run.pageNum}
            IN /\ progressStore' = saveProgress(progressStore, PbId,
                     SetField(SetField(progressStore[PbId], "currentPage", run.pageNum + 1),
                              "processedPages", processedPages))
               /\ run' = [run EXCEPT !.pc = "writing", !.tasks = <<>>,
                                     !.processedPages = processedPages]
    /\ UNCHANGED <<scraperStatus, files, stopRequested>>

\* lines 432-442: allStores is written to the output; a failing write is
\* logged.  The loop goes on with the next page after the delay.
PbWritten(written) ==
    /\ run.pc = "writing"
    /\ ~PbMicrotaskPending
    /\ written \/ run.faults < MaxFaults
    /\ files' = IF written THEN [files EXCEPT ![PbOutputFile] = File(run.allStores)]
                ELSE files
    /\ run' = [run EXCEPT !.pc = "page", !.pageNum = @ + 1,
                          !.faults = IF written THEN @ ELSE @ + 1]
    /\ UNCHANGED <<progressStore, scraperStatus, stopRequested>>

\* lines 444-451: after the loop the browser is closed and the status reset.
PbFinish ==
    /\ ~PbMicrotaskPending
    /\ \/ run.pc = "afterLoop"
       \/ run.pc = "page" /\ run.pageNum > PbMaxPage
    /\ scraperStatus' = resetScraper(scraperStatus, PbId)
    /\ run' = [run EXCEPT !.pc = "ended", !.cause = "completed", !.result = "resolved"]
    /\ UNCHANGED <<progressStore, files, stopRequested>>

\* scraperController.js: stopScraper('publicgcreengolf_store'), by a request.
PbStop ==
    /\ getScraperStatus(scraperStatus, PbId) # "stopped"
    /\ ~PbMicrotaskPending
    /\ scraperStatus' = stopScraper(scraperStatus, PbId)
    /\ UNCHANGED <<progressStore, files, stopRequested, run>>

PbNext ==
    \/ \E launched \in BOOLEAN : PbStart(launched)
    \/ PbPageTop
    \/ \E outcome \in PbPageOutcomes : PbPageLoaded(outcome)
    \/ \E index \in 0..(PbPageSize - 1) : PbTaskStart(index) \/ PbTaskDone(index)
    \/ PbSettle
    \/ \E written \in BOOLEAN : PbWritten(written)
    \/ PbFinish
    \/ PbStop

SpecPublicgolfBasic == PbInit /\ [][PbNext]_vars

----------------------------------------------------------------------------
(* Claims about scrapePublicgolfBasic *)

\* C16: once a page is processed (marked in processedPages and the progress
\* position advanced past it), every store extracted from that page is in
\* the accumulator that is written to the output.
C16_ProcessedPageInAccumulator ==
    \A p \in FieldOr(readProgress(progressStore, PbId), "processedPages", {}) :
        \A index \in 0..(PbPageSize - 1) : PbStore(p, index) \in Range(run.allStores)

----------------------------------------------------------------------------
(* okgolf.js and sggolf_basic.js: isValidPhoneNumber.  A string is the
   sequence of its characters. *)

PhMaxGroup == 5     \* digits in one group of a candidate phone string

\* \d of a JavaScript regular expression without the u flag: 0-9.
PhIsDigit(c) == c \in {"0", "1", "2", "3", "4", "5", "6", "7", "8", "9"}

\* Every character of s from position from to position to is a digit.
PhAllDigits(s, from, to) == \A j \in from..to : PhIsDigit(s[j])

\* /^\d{2,3}-\d{3,4}-\d{4}$/.test(phoneStr): from the start of the input the
\* first quantifier takes a digits, the second b digits and the last 4
\* digits, with a hyphen after the first and the second, up to the end.
PhRegexTest(phoneStr) ==
    \E a \in 2..3, b \in 3..4 :
        /\ Len(phoneStr) = a + b + 6
        /\ PhAllDigits(phoneStr, 1, a)
        /\ phoneStr[a + 1] = "-"
        /\ PhAllDigits(phoneStr, a + 2, a + b + 1)
        /\ phoneStr[a + b + 2] = "-"
        /\ PhAllDigits(phoneStr, a + b + 3, a + b + 6)

\* isValidPhoneNumber with a pattern that is not anchored at the end.
isValidPhoneNumberUnanchored(phoneStr) ==
    IF phoneStr = <<"-">> \/ phoneStr = <<>> THEN TRUE
    ELSE \E k \in 0..Len(phoneStr) : PhRegexTest(SubSeq(phoneStr, 1, k))

isValidPhoneNumber(phoneStr) ==
    IF phoneStr = <<"-">> \/ phoneStr = <<>> THEN TRUE
    ELSE PhRegexTest(phoneStr)

\* The candidate strings: a prefix, three runs of up to PhMaxGroup digits with
\* a separator after the first and the second, and a suffix; and the two
\* strings "02-1234-5678" and "02-12-5678".
PhInputs ==
    LET Digits(c, n) == [j \in 1..n |-> c]
        Seps == {<<>>, <<"-">>, <<" ">>, <<"-", "-">>}
        Ends == {<<>>, <<" ">>, <<"a">>}
    IN {pre \o Digits("0", a) \o s1 \o Digits("1", b) \o s2 \o Digits("9", c) \o post :
            pre \in Ends, a \in 0..PhMaxGroup, s1 \in Seps, b \in 0..PhMaxGroup,
            s2 \in Seps, c \in 0..PhMaxGroup, post \in Ends}
       \cup {<<"0", "2", "-", "1", "2", "3", "4", "-", "5", "6", "7", "8">>,
             <<"0", "2", "-", "1", "2", "-", "5", "6", "7", "8">>}

PhInit ==
    /\ progressStore = InitProgress
    /\ scraperStatus = InitStatus
    /\ files = [f \in FileNames |-> NoFile]
    /\ stopRequested = FALSE
    /\ \E phoneStr \in PhInputs :
          run = [pc |-> "called", phoneStr |-> phoneStr, valid |-> FALSE]

\* okgolf.js 295-302: the call returns.
PhReturn ==
    /\ run.pc = "called"
    /\ run' = [run EXCEPT !.pc = "returned", !.valid = isValidPhoneNumber(run.phoneStr)]
    /\ UNCHANGED <<progressStore, scraperStatus, files, stopRequested>>

SpecPhoneNumber == PhInit /\ [][PhReturn]_vars

----------------------------------------------------------------------------
(* Claims about isValidPhoneNumber *)

\* The substrings of s between its hyphens, from left to right.
RECURSIVE PhGroups(_)
PhGroups(s) ==
    IF \A j \in 1..Len(s) : s[j] # "-" THEN <<s>>
    ELSE LET h == CHOOSE j \in 1..Len(s) : s[j] = "-" /\ \A k \in 1..(j - 1) : s[k] # "-"
         IN <<SubSeq(s, 1, h - 1)>> \o PhGroups(SubSeq(s, h + 1, Len(s)))

\* Three hyphen-separated groups of digits of lengths 2-3, 3-4 and 4.
PhThreeGroups(s) ==
    LET g == PhGroups(s)
    IN /\ Len(g) = 3
       /\ \A k \in 1..3 : \A j \in 1..Len(g[k]) :
             g[k][j] \in {"0", "1", "2", "3", "4", "5", "6", "7", "8", "9"}
       /\ Len(g[1]) \in {2, 3}
       /\ Len(g[2]) \in {3, 4}
       /\ Len(g[3]) = 4

\* C20: isValidPhoneNumber accepts a string exactly when it is "" or "-" or
\* three hyphen-separated digit groups of lengths 2-3, 3-4 and 4;
\* "02-1234-5678" is accepted and "02-12-5678" is rejected.
C20_PhoneBoundary ==
    run.pc = "returned" =>
        /\ run.valid <=> \/ run.phoneStr = <<>>
                         \/ run.phoneStr = <<"-">>
                         \/ PhThreeGroups(run.phoneStr)
        /\ run.phoneStr = <<"0", "2", "-", "1", "2", "3", "4", "-", "5", "6", "7", "8">>
              => run.valid
        /\ run.phoneStr = <<"0", "2", "-", "1", "2", "-", "5", "6", "7", "8">>
              => ~run.valid

\* A string of three digit groups with the longest admitted area code was
\* accepted.
C20_Witness ==
    /\ run.pc = "returned"
    /\ run.valid
    /\ Len(run.phoneStr) = 13


\* C21: validation reject.  In a first run of scrapeOkongolf, a row that
\* fails any of the four validators is never in the accumulator; its task is
\* finished at once and is not started again while the page is processed;
\* the other rows of the page are all appended when the page is finished,
\* and the run goes on to the last page and ends fulfilled with every row
\* that passed the validators.
C21_ValidationReject ==
    LET inv == run.inv[1]
        page == OkSequentialPage(inv.pageNum)
    IN  run.runs = 1 =>
          /\ run.rejected \cap Range(inv.allStores) = {}
          /\ inv.pc = "batch" =>
               \A index \in 0..(run.pageSize - 1) :
                   OkRow(inv.pageNum, index) \in run.rejected
                       => inv.tasks[index + 1] = "done"
          /\ inv.pc = "pageSleep" =>
               Range(inv.allStores) \cap page = page \ run.rejected
          /\ inv.pc = "ended" =>
               /\ inv.result = "resolved"
               /\ Range(inv.allStores) = (1..(OkMaxPage * run.pageSize)) \ run.rejected

C21_Witness ==
    /\ run.runs = 1
    /\ run.inv[1].pc = "ended"
    /\ 1 \in run.rejected
    /\ {2, run.pageSize + 1} \subseteq Range(run.inv[1].allStores)

----------------------------------------------------------------------------
(* Claims about the jobs as their routes start them *)

\* C22: a stop requested while the job started by the SSE route is running
\* is observed by the loop: the first poll at the head of the loop that finds
\* the request pending, with units left, ends the run stopped.
C22_RouteStopObserved ==
    [][(/\ run.viaRoute /\ stopRequested
        /\ run.pc = "top" /\ run.i < Len(run.stores)
        /\ run'.pc # "top")
          => run'.pc = "stopped"]_vars

\* C23: a stop of the golfzone job that arrives while the stores of a region
\* are iterated ends the run: the run returns (by the stop, or by completion
\* if no poll was left) and the route has set the status back to idle.  A run
\* ended by the stop has persisted regionsProgress[regionIndex] = i, the
\* index of the first store of the region that was not processed, and no
\* store of the region from i on has been collected.
C23_StopEndsRun ==
    /\ [](run.cause = "stop" =>
            /\ run.pc = "ended"
            /\ GzAt(GzProgress.regionsProgress, run.regionIndex) = run.i
            /\ \A j \in run.i..(GzStoresPerRegion - 1) :
                   GzStoreOf(run.regionIndex, j) \notin run.appended)
    /\ (/\ run.pc \in {"storeTop", "store"}
        /\ getScraperStatus(scraperStatus, GzId) = "stopped")
          ~> (/\ run.pc = "ended" /\ run.cause \in {"stop", "completed"}
              /\ getScraperStatus(scraperStatus, GzId) = "idle")

\* A stop was observed after a store of the region had been processed.
C23_Witness ==
    /\ run.pc = "ended" /\ run.cause = "stop" /\ run.i > 0
    /\ run.appended # {}

----------------------------------------------------------------------------
(* More claims about scrapeFieldzone *)

\* C24: the output of earlier runs is merged without duplicates.  When a run
\* of scrapeFieldzone was stopped while page p was being processed and a
\* later run resumed, with no failure in either, no store of page p occurs
\* more than once in the accumulator written to the output.
C24_DedupOnResume ==
    (run.stoppedIn # 0 /\ run.runs > 1 /\ run.faults = 0) =>
        \A index \in 0..(FzPageSize - 1) :
            Cardinality({j \in 1..Len(files[FzOutputFile].data) :
                files[FzOutputFile].data[j] = FzStore(run.stoppedIn, index)}) <= 1

----------------------------------------------------------------------------
(* More claims about scrapeGncGolf *)

\* C25: within a run of scrapeGncGolf the position `completed` of the
\* persisted progress record never decreases, whatever the interleaving of
\* the unit tasks, the stop detection and the handling of failing units.
C25_CompletedMonotonic ==
    [][run'.runs = run.runs =>
          FieldOr(progressStore'[GncId], "completed", 0)
              >= FieldOr(progressStore[GncId], "completed", 0)]_vars

----------------------------------------------------------------------------
(* publicgolf_detail.js: scrapePublicgolfDetail, called by GET of the route
   scrape_publicgcreengolf_details.  The input has PdNumStores stores without
   an address; run.currentIndex is progress.currentIndex. *)

PdNumStores == 6    \* stores of the input that have no address
PdMaxEvents == 1    \* injected failures and stop requests in one behaviour

PdId == "publicgcreengolf_details"

\* line 40
PdConcurrencyLimit == 5

\* line 105: the period of the intermediate save
PdSavePeriod == 10

\* The phases of a unit task in which it holds a slot of pLimit.
PdActive == {"saving", "fetching", "sleeping", "writing"}

\* lines 45-81: what the setup comes to: the batch starts, the input file is
\* missing (the function throws), or no store of the input lacks an address
\* (the function returns).
PdSetups == {"ok", "noInput", "upToDate"}

PdIdle == [pc |-> "idle", tasks |-> <<>>, start |-> 0, currentIndex |-> 0,
           finished |-> 0, firstError |-> "none", cause |-> "none", sse |-> <<>>,
           runs |-> 0, events |-> 0]

PdInit ==
    /\ progressStore = InitProgress
    /\ scraperStatus = InitStatus
    /\ files = [f \in FileNames |-> NoFile]
    /\ stopRequested = FALSE
    /\ run = PdIdle

\* route.js lines 31-48: the event GET sends when the promise of
\* scrapePublicgolfDetail has settled: `end` if it fulfilled, `stop` if it
\* rejected with a ScraperStoppedError, `error` if it rejected otherwise.
PdRouteEvents(result, error) ==
    IF result = "fulfilled" THEN <<"end">>
    ELSE IF error = "stop" THEN <<"stop">> ELSE <<"error">>

\* lines 28-95: set the status, read the progress file, load the input and
\* launch the browser; the tasks are queued on pLimit.  The progress file is
\* deleted by a completed run, so a run starts at currentIndex 0 or, after a
\* run that did not complete, where that run left the counter.
PdStart(setup) ==
    /\ run.pc \in {"idle", "ended"}
    /\ CountIn(run.tasks, PdActive \cup {"queued"}) = 0
    /\ run.runs < MaxRuns
    /\ setup = "ok" \/ run.events < PdMaxEvents
    /\ scraperStatus' = setScraperStatus(scraperStatus, PdId, "running")
    /\ LET start == IF run.cause \in {"stop", "failed"} THEN run.currentIndex ELSE 0
       IN run' = CASE setup = "ok" ->
                        [run EXCEPT !.pc = "running", !.runs = @ + 1,
                            !.tasks = [j \in 1..PdNumStores |-> "queued"],
                            !.start = start, !.currentIndex = start, !.finished = 0,
                            !.firstError = "none", !.cause = "none", !.sse = <<>>]
                   [] setup = "noInput" ->
                        [run EXCEPT !.pc = "ended", !.runs = @ + 1, !.events = @ + 1,
                            !.tasks = <<>>, !.cause = "error",
                            !.sse = PdRouteEvents("rejected", "error")]
                   [] setup = "upToDate" ->
                        [run EXCEPT !.pc = "ended", !.runs = @ + 1, !.events = @ + 1,
                            !.tasks = <<>>, !.cause = "completed",
                            !.sse = PdRouteEvents("fulfilled", "none")]
    /\ UNCHANGED <<progressStore, files, stopRequested>>

\* Promise.all(tasks) has settled: rejected by a task that threw, or
\* fulfilled because every task is done.
PdSettled ==
    \/ CountIn(run.tasks, {"thrown"}) > 0
    \/ CountIn(run.tasks, {"done"}) = Len(run.tasks)

\* A continuation is ready to run before the event loop takes anything else.
PdMicrotaskPending ==
    \/ \E index \in 0..(PdNumStores - 1) :
          PLimitMayStart(run.tasks, index, PdActive, PdConcurrencyLimit)
    \/ run.pc = "running" /\ PdSettled

\* lines 96-108: the task of storesToUpdate[index] starts.  On 'stopped' it
\* throws ScraperStoppedError; when currentIndex + index is a multiple of 10
\* it adds index to the counter and writes the progress file.
PdTaskStart(index) ==
    /\ PLimitMayStart(run.tasks, index, PdActive, PdConcurrencyLimit)
    /\ run' = IF getScraperStatus(scraperStatus, PdId) = "stopped"
              THEN [run EXCEPT !.tasks[index + 1] = "thrown",
                               !.firstError = IF @ = "none" THEN "stop" ELSE @]
              ELSE IF (run.currentIndex + index) % PdSavePeriod = 0
              THEN [run EXCEPT !.tasks[index + 1] = "saving",
                               !.currentIndex = @ + index]
              ELSE [run EXCEPT !.tasks[index + 1] = "fetching"]
    /\ UNCHANGED <<progressStore, scraperStatus, files, stopRequested>>

\* line 107: the write of the progress file has settled; a failing write
\* throws out of the task.
PdTaskSaved(index, written) ==
    /\ index < Len(run.tasks)
    /\ run.tasks[index + 1] = "saving"
    /\ ~PdMicrotaskPending
    /\ written \/ run.events < PdMaxEvents
    /\ run' = IF written
              THEN [run EXCEPT !.tasks[index + 1] = "fetching"]
              ELSE [run EXCEPT !.tasks[index + 1] = "thrown", !.events = @ + 1,
                               !.firstError = IF @ = "none" THEN "error" ELSE @]
    /\ UNCHANGED <<progressStore, scraperStatus, files, stopRequested>>

\* lines 114-135: the detail page has been read, or that failed and the
\* error is in the error log; the delay starts.
PdTaskFetched(index) ==
    /\ index < Len(run.tasks)
    /\ run.tasks[index + 1] = "fetching"
    /\ ~PdMicrotaskPending
    /\ run' = [run EXCEPT !.tasks[index + 1] = "sleeping"]
    /\ UNCHANGED <<progressStore, scraperStatus, files, stopRequested>>

\* lines 135-139: the delay is over: the counter is incremented and the
\* progress file written.
PdTaskSlept(index) ==
    /\ index < Len(run.tasks)
    /\ run.tasks[index + 1] = "sleeping"
    /\ ~PdMicrotaskPending
    /\ run' = [run EXCEPT !.tasks[index + 1] = "writing", !.currentIndex = @ + 1]
    /\ UNCHANGED <<progressStore, scraperStatus, files, stopRequested>>

\* lines 139-140: the write of the progress file has settled and the task
\* ends; a failing write throws out of the task.
PdTaskWritten(index, written) ==
    /\ index < Len(run.tasks)
    /\ run.tasks[index + 1] = "writing"
    /\ ~PdMicrotaskPending
    /\ written \/ run.events < PdMaxEvents
    /\ run' = IF written
              THEN [run EXCEPT !.tasks[index + 1] = "done", !.finished = @ + 1]
              ELSE [run EXCEPT !.tasks[index + 1] = "thrown", !.events = @ + 1,
                               !.firstError = IF @ = "none" THEN "error" ELSE @]
    /\ UNCHANGED <<progressStore, scraperStatus, files, stopRequested>>

\* lines 143-167: Promise.all has settled.  Fulfilled: the data is written
\* and the progress file deleted.  Rejected: the catch of line 160 logs the
\* ScraperStoppedError, or logs any other error and appends it to the error
\* log; it throws nothing.
PdSettle ==
    /\ run.pc = "running"
    /\ PdSettled
    /\ run' = [run EXCEPT !.pc = "closing",
                  !.cause = CASE run.firstError = "stop" -> "stop"
                              [] run.firstError = "error" -> "failed"
                              [] OTHER -> "completed"]
    /\ UNCHANGED <<progressStore, scraperStatus, files, stopRequested>>

\* lines 168-173 and route.js 31-36: the finally closes the browser and
\* resets the status; the function returns and GET sends its event.
PdFinish ==
    /\ run.pc = "closing"
    /\ ~PdMicrotaskPending
    /\ scraperStatus' = resetScraper(scraperStatus, PdId)
    /\ run' = [run EXCEPT !.pc = "ended", !.sse = PdRouteEvents("fulfilled", "none")]
    /\ UNCHANGED <<progressStore, files, stopRequested>>

\* A caller of scraperController.js asks the running job to stop.
PdStop ==
    /\ ~PdMicrotaskPending
    /\ run.events < PdMaxEvents
    /\ getScraperStatus(scraperStatus, PdId) = "running"
    /\ scraperStatus' = stopScraper(scraperStatus, PdId)
    /\ run' = [run EXCEPT !.events = @ + 1]
    /\ UNCHANGED <<progressStore, files, stopRequested>>

PdNext ==
    \/ \E setup \in PdSetups : PdStart(setup)
    \/ \E index \in 0..(PdNumStores - 1) :
          \/ PdTaskStart(index)
          \/ \E written \in BOOLEAN : PdTaskSaved(index, written)
          \/ PdTaskFetched(index)
          \/ PdTaskSlept(index)
          \/ \E written \in BOOLEAN : PdTaskWritten(index, written)
    \/ PdSettle
    \/ PdFinish
    \/ PdStop

SpecPublicgolfDetail == PdInit /\ [][PdNext]_vars

----------------------------------------------------------------------------
(* Claims about scrapePublicgolfDetail and its route *)

\* C26: when a run started by the route has ended, the stream carries exactly
\* one terminal event and it matches the outcome: `stop` if the run ended by
\* cancellation, `end` only if the run completed, `error` if an error
\* propagated to the route.
C26_TerminalEventMatches ==
    run.pc = "ended" =>
        /\ Len(run.sse) = 1
        /\ run.cause = "stop" => run.sse = <<"stop">>
        /\ run.sse = <<"end">> => run.cause = "completed"
        /\ run.cause = "error" => run.sse = <<"error">>

----------------------------------------------------------------------------
(* progressManager.js called directly: any sequence of PmMaxCalls calls of
   readProgress and saveProgress on the task names PmTasks.  run.saved is
   the record last passed to saveProgress for each task, Absent if none. *)

PmMaxCalls == 4     \* calls in one behaviour

PmTasks == {"citeezon", "gncgolf", "golfzone"}

\* The records the scrapers save: objects, also with fields that are 0.
PmRecords == {[currentIndex |-> 0], [currentPage |-> 2], [completed |-> 1],
              DefaultProgress}

PmInit ==
    /\ progressStore = InitProgress
    /\ scraperStatus = InitStatus
    /\ files = [f \in FileNames |-> NoFile]
    /\ stopRequested = FALSE
    /\ run = [op |-> "none", task |-> "none", result |-> Absent,
              saved |-> [t \in PmTasks |-> Absent], calls |-> 0]

\* lines 6-14: readProgress(taskName) with its result.
PmRead(taskName) ==
    /\ run.calls < PmMaxCalls
    /\ progressStore' = readProgressStore(progressStore, taskName)
    /\ run' = [run EXCEPT !.op = "read", !.task = taskName, !.calls = @ + 1,
                          !.result = readProgress(progressStore, taskName)]
    /\ UNCHANGED <<scraperStatus, files, stopRequested>>

\* lines 16-18: saveProgress(taskName, progress).
PmSave(taskName, progress) ==
    /\ run.calls < PmMaxCalls
    /\ progressStore' = saveProgress(progressStore, taskName, progress)
    /\ run' = [run EXCEPT !.op = "save", !.task = taskName, !.calls = @ + 1,
                          !.saved[taskName] = progress]
    /\ UNCHANGED <<scraperStatus, files, stopRequested>>

PmNext ==
    \E taskName \in PmTasks :
        \/ PmRead(taskName)
        \/ \E progress \in PmRecords : PmSave(taskName, progress)

SpecProgressManager == PmInit /\ [][PmNext]_vars

\* C27: the checkpoint store is a map with defaults.  readProgress of a task
\* never saved returns the default record, on the first read and on every
\* later one; readProgress of a task that was saved returns the record last
\* saved; and a call for one task name leaves the record of every other task
\* name as it was.
C27_MapWithDefaults ==
    /\ [](run.op = "read" =>
            run.result = IF run.saved[run.task] = Absent
                         THEN DefaultProgress ELSE run.saved[run.task])
    /\ [][\A t \in TaskNames : t # run'.task => progressStore'[t] = progressStore[t]]_vars

\* A record was saved for one task and read back, after another task had
\* been read twice without ever being saved.
C27_Witness ==
    /\ run.op = "read" /\ run.calls = PmMaxCalls
    /\ run.saved[run.task] \in PmRecords \ {DefaultProgress}
    /\ \E t \in PmTasks : run.saved[t] = Absent /\ progressStore[t] = DefaultProgress

----------------------------------------------------------------------------
(* scraperController.js called directly: any sequence of ScMaxCalls calls on
   the ids ScIds.  run.last is the status last set for each id by any of
   the calls, "unset" if none. *)

ScMaxCalls == 4     \* calls in one behaviour

ScIds == {"gncgolf", "fieldzone", "scrape_golfzone"}

\* The values the scrapers and the routes pass to setScraperStatus.
ScStatuses == {"idle", "running", "stopped"}

ScInit ==
    /\ progressStore = InitProgress
    /\ scraperStatus = InitStatus
    /\ files = [f \in FileNames |-> NoFile]
    /\ stopRequested = FALSE
    /\ run = [op |-> "none", id |-> "none", result |-> "none",
              last |-> [id \in ScIds |-> "unset"], calls |-> 0]

\* lines 10-12
ScSet(scraperId, s) ==
    /\ run.calls < ScMaxCalls
    /\ scraperStatus' = setScraperStatus(scraperStatus, scraperId, s)
    /\ run' = [run EXCEPT !.op = "set", !.id = scraperId, !.calls = @ + 1,
                          !.last[scraperId] = s]
    /\ UNCHANGED <<progressStore, files, stopRequested>>

\* lines 19-21
ScGet(scraperId) ==
    /\ run.calls < ScMaxCalls
    /\ run' = [run EXCEPT !.op = "get", !.id = scraperId, !.calls = @ + 1,
                          !.result = getScraperStatus(scraperStatus, scraperId)]
    /\ UNCHANGED <<progressStore, scraperStatus, files, stopRequested>>

\* lines 27-29
ScStop(scraperId) ==
    /\ run.calls < ScMaxCalls
    /\ scraperStatus' = stopScraper(scraperStatus, scraperId)
    /\ run' = [run EXCEPT !.op = "stop", !.id = scraperId, !.calls = @ + 1,
                          !.last[scraperId] = "stopped"]
    /\ UNCHANGED <<progressStore, files, stopRequested>>

\* lines 35-37
ScReset(scraperId) ==
    /\ run.calls < ScMaxCalls
    /\ scraperStatus' = resetScraper(scraperStatus, scraperId)
    /\ run' = [run EXCEPT !.op = "reset", !.id = scraperId, !.calls = @ + 1,
                          !.last[scraperId] = "idle"]
    /\ UNCHANGED <<progressStore, files, stopRequested>>

ScNext ==
    \E scraperId \in ScIds :
        \/ \E s \in ScStatuses : ScSet(scraperId, s)
        \/ ScGet(scraperId)
        \/ ScStop(scraperId)
        \/ ScReset(scraperId)

SpecScraperController == ScInit /\ [][ScNext]_vars

\* C28: the status registry is a tri-state map per job.  getScraperStatus
\* returns 'idle' for an id never set and otherwise the status last set,
\* where stopScraper sets 'stopped' and resetScraper sets 'idle'; every
\* status it returns is idle, running or stopped; and a call for one id
\* leaves the status of every other id as it was.
C28_TriStateMap ==
    /\ [](/\ run.op = "get" =>
                run.result = IF run.last[run.id] = "unset"
                             THEN "idle" ELSE run.last[run.id]
          /\ \A id \in ScraperIds :
                getScraperStatus(scraperStatus, id) \in ScStatuses)
    /\ [][\A id \in ScraperIds :
             id # run'.id => getScraperStatus(scraperStatus', id)
                                 = getScraperStatus(scraperStatus, id)]_vars

\* An id was stopped and read back, while another id was never set.
C28_Witness ==
    /\ run.op = "get" /\ run.result = "stopped"
    /\ \E id \in ScIds : run.last[id] = "unset"
    /\ \E id \in ScIds : run.last[id] = "running"


\* C29: attempts are independent.  While the first run has not been resumed,
\* after a unit is done (the loop is back at its head) the accumulator holds
\* at most one record for each unit done, even if an attempt failed after its
\* push (the write of the output file threw).
C29_AttemptsIndependent ==
    (run.runs = 1 /\ run.pc = "top") =>
        \A u \in 1..run.i :
            Cardinality({j \in 1..Len(run.allStores) :
                            run.allStores[j] = run.stores[u]}) <= 1

----------------------------------------------------------------------------
(* The retry helper, retry(fn, 3), of sggolf_basic.js (lines 29-39), of
   sggolf_detail (part_002, lines 26-36) and of gncgolf (part_005, lines
   33-43).  fn is any function: its k-th call fulfils with the value k or
   rejects with the error k, as run.outcomes says.  run.log is the sequence
   of the calls of fn and of the waits. *)

RetryMaxCalls == 4     \* calls of fn whose outcome a behaviour fixes

\* The default of `retries` and MAX_RETRIES of gncgolf.
RetryRetries == 3

RetryCopies == {"sggolf_basic", "sggolf_detail", "gncgolf"}

\* sleep(1000), setTimeout(resolve, 1000), DELAY_BETWEEN_REQUESTS
RetryDelay(copy) == 1000

RetryInit ==
    /\ progressStore = InitProgress
    /\ scraperStatus = InitStatus
    /\ files = [f \in FileNames |-> NoFile]
    /\ stopRequested = FALSE
    /\ \E outcomes \in [1..RetryMaxCalls -> BOOLEAN], copy \in RetryCopies :
          run = [pc |-> "call", copy |-> copy, outcomes |-> outcomes, attempt |-> 1,
                 calls |-> 0, waited |-> 0, result |-> 0, error |-> 0, log |-> <<>>]

\* The loop condition: attempt runs from 1 while attempt <= retries.
retryLoop(attempt, retries) == attempt <= retries

\* Mutant of retryGivesUp: the last error is rethrown one attempt later.
retryGivesUpLate(attempt, retries) == attempt = retries + 1

\* `if (attempt === retries) throw error`
retryGivesUp(attempt, retries) == attempt = retries

\* `return await fn()` and the head of the catch.
RetryCall ==
    /\ run.pc = "call"
    /\ run.calls < RetryMaxCalls
    /\ LET k == run.calls + 1
           called == [run EXCEPT !.calls = k, !.log = Append(@, "call")]
       IN run' = IF run.outcomes[k]
                 THEN [called EXCEPT !.pc = "returned", !.result = k]
                 ELSE IF retryGivesUp(run.attempt, RetryRetries)
                 THEN [called EXCEPT !.pc = "thrown", !.error = k]
                 ELSE [called EXCEPT !.pc = "backoff"]
    /\ UNCHANGED <<progressStore, scraperStatus, files, stopRequested>>

\* logWarn, the wait, and the next turn of the loop; a loop that runs out
\* returns undefined (result 0).
RetryBackoff ==
    /\ run.pc = "backoff"
    /\ run' = [run EXCEPT !.waited = @ + RetryDelay(run.copy),
                          !.log = Append(@, "sleep"),
                          !.attempt = @ + 1,
                          !.pc = IF retryLoop(run.attempt + 1, RetryRetries)
                                 THEN "call" ELSE "returned"]
    /\ UNCHANGED <<progressStore, scraperStatus, files, stopRequested>>

RetryNext == RetryCall \/ RetryBackoff

SpecRetry == RetryInit /\ [][RetryNext]_vars

\* C30: retry(fn, 3) calls fn until its first success and at most 3 times.
\* It returns the value of the first successful call, and then every earlier
\* call failed and no later call was made; after a third failure it throws
\* the error of that third call, and no fourth call is made; calls and waits
\* alternate, starting with a call, and once retry has returned or thrown the
\* last of them is a call, so that no wait follows the last attempt.
C30_RetryAtMostThree ==
    /\ run.calls <= 3
    /\ \A j \in 1..Len(run.log) : run.log[j] = IF j % 2 = 1 THEN "call" ELSE "sleep"
    /\ Len(run.log) \in {2 * run.calls - 1, 2 * run.calls}
    /\ run.waited = 1000 * (Len(run.log) - run.calls)
    /\ \A j \in 1..(run.calls - 1) : ~run.outcomes[j]
    /\ run.pc = "returned" =>
          /\ run.calls >= 1 /\ run.outcomes[run.calls]
          /\ run.result = run.calls
          /\ Len(run.log) = 2 * run.calls - 1
    /\ run.pc = "thrown" =>
          /\ run.calls = 3 /\ ~run.outcomes[3]
          /\ run.error = 3
          /\ Len(run.log) = 5
    /\ run.pc \in {"call", "backoff"} => run.calls < 3

\* Three calls failed and the error was rethrown, where a fourth call would
\* have succeeded.
C30_Witness ==
    /\ run.pc = "thrown" /\ run.calls = 3 /\ run.waited = 2000
    /\ run.outcomes[4]

----------------------------------------------------------------------------
(* Further claims about scrapeGncGolf *)

\* The value of `completed` the run read at its start: the position of the
\* first store of stores.slice(completed), or completed itself if the slice
\* is empty.
GncStartValue ==
    IF Len(run.storesToProcess) > 0 THEN run.storesToProcess[1] ELSE run.completed

\* C31: no lost update of the progress counter.  When a run in which no task
\* saw a stop has completed, and no unit has failed, the persisted
\* `completed` equals its value at the start of the run plus the number of
\* stores the run had to process, whatever the order of the unit tasks.
C31_NoLostUpdate ==
    (run.pc = "completed" /\ ~run.stopSeen /\ run.faults = 0) =>
        FieldOr(progressStore[GncId], "completed", 0)
            = GncStartValue + Len(run.storesToProcess)

\* A resumed run over the stores a stopped run left has completed.
C31_Witness ==
    /\ run.pc = "completed" /\ ~run.stopSeen /\ run.faults = 0
    /\ run.runs = 2
    /\ GncStartValue > 0
    /\ Len(run.storesToProcess) > 0
    /\ FieldOr(progressStore[GncId], "completed", 0) = GncNumStores

----------------------------------------------------------------------------
(* friendgolf.js: scrapeFriendgolf.  The regions list is a sequence of
   provinces, each the number of its districts; a district search is the
   pair <<regionIndex, pageIndex>>; the k-th shop of a search result is a
   number.  run.searched lists the district searches the run has started
   and run.stopLen is its length when the run detected a stop (-1 before). *)

FgId == "friendgolf"
FgOutputFile == "friendgolf_shops.json"

FgRegionLists ==
    UNION {[1..n -> 1..FgMaxDistricts] : n \in 1..FgMaxRegions}

FgSearchOutcomes == {"ok", "writeFail", "noResults", "fail"}
FgMoreOutcomes == {"none", "clicked", "clickFail"}

\* The shopId of the k-th shop of the result list of a district.
FgShop(regionIndex, pageIndex, k) ==
    (regionIndex * FgMaxDistricts + pageIndex) * (FgMaxMore + 1) + k + 1

FgIdle == [pc |-> "idle", regions |-> <<>>, regionIndex |-> 0, pageIndex |-> 0,
           currentPageIndex |-> 0, allShops |-> <<>>, clicks |-> 0,
           searched |-> <<>>, stopLen |-> -1, cause |-> "none", runs |-> 0,
           events |-> 0]

FgInit ==
    /\ progressStore = InitProgress
    /\ scraperStatus = InitStatus
    /\ files = [f \in FileNames |-> NoFile]
    /\ stopRequested = FALSE
    /\ \E regions \in FgRegionLists : run = [FgIdle EXCEPT !.regions = regions]

\* lines 26-76: the status is set, the progress record and the output of
\* earlier runs are read, the browser is launched and the loop over the
\* regions begins at currentRegionIndex.
FgStart ==
    /\ run.pc \in {"idle", "ended"}
    /\ run.runs < MaxRuns
    /\ scraperStatus' = setScraperStatus(scraperStatus, FgId, "running")
    /\ progressStore' = readProgressStore(progressStore, FgId)
    /\ LET progress == readProgress(progressStore, FgId)
       IN run' = [run EXCEPT
                     !.pc = "regionTop", !.runs = @ + 1, !.cause = "none",
                     !.regionIndex = FieldOr(progress, "currentRegionIndex", 0),
                     !.currentPageIndex = FieldOr(progress, "currentPageIndex", 0),
                     !.pageIndex = 0, !.clicks = 0,
                     !.allShops = files[FgOutputFile].data,
                     !.searched = <<>>, !.stopLen = -1]
    /\ UNCHANGED <<files, stopRequested>>

\* lines 77-84, 268-283: the head of the loop over the regions; the loop over
\* the districts begins at currentPageIndex; after the last region the status
\* is reset and the browser closed.
FgRegionTop ==
    /\ run.pc = "regionTop"
    /\ IF run.regionIndex < Len(run.regions)
       THEN /\ run' = [run EXCEPT !.pc = "districtTop",
                                  !.pageIndex = run.currentPageIndex]
            /\ UNCHANGED scraperStatus
       ELSE /\ run' = [run EXCEPT !.pc = "ended", !.cause = "completed"]
            /\ scraperStatus' = resetScraper(scraperStatus, FgId)
    /\ UNCHANGED <<progressStore, files, stopRequested>>

\* lines 84-95: the head of the loop over the districts and its stop poll,
\* which is outside the try of line 97: its error ends the function through
\* the catch of line 269.
FgDistrictTop ==
    /\ run.pc = "districtTop"
    /\ IF run.pageIndex >= run.regions[run.regionIndex + 1]
       THEN /\ run' = [run EXCEPT !.pc = "regionEnd"]
            /\ UNCHANGED <<progressStore, scraperStatus>>
       ELSE IF getScraperStatus(scraperStatus, FgId) = "stopped"
       THEN /\ progressStore' = saveProgress(progressStore, FgId,
                                   [currentRegionIndex |-> run.regionIndex,
                                    currentPageIndex |-> run.pageIndex])
            /\ scraperStatus' = resetScraper(scraperStatus, FgId)
            /\ run' = [run EXCEPT !.pc = "ended", !.cause = "stop",
                                  !.stopLen = Len(run.searched)]
       ELSE /\ run' = [run EXCEPT !.pc = "search", !.clicks = 0,
                          !.searched = Append(@, <<run.regionIndex, run.pageIndex>>)]
            /\ UNCHANGED <<progressStore, scraperStatus>>
    /\ UNCHANGED <<files, stopRequested>>

\* lines 97-154: the search of the district.  "fail": a page operation
\* throws to the catch of line 249, which saves the position and goes on
\* with the next district; "noResults": the result list does not appear,
\* `continue`; "ok", "writeFail": the first shops are pushed and the output
\* is written, or that write throws and is logged.
FgSearch(outcome) ==
    /\ run.pc = "search"
    /\ outcome # "ok" => run.events < FgMaxEvents
    /\ LET shops == <<FgShop(run.regionIndex, run.pageIndex, 0)>>
           pushed == run.allShops \o shops
           seen == [run EXCEPT !.events = IF outcome = "ok" THEN @ ELSE @ + 1]
       IN CASE outcome = "fail" ->
                 /\ progressStore' = saveProgress(progressStore, FgId,
                                        [currentRegionIndex |-> run.regionIndex,
                                         currentPageIndex |-> run.pageIndex])
                 /\ run' = [seen EXCEPT !.pc = "districtTop", !.pageIndex = @ + 1]
                 /\ UNCHANGED files
            [] outcome = "noResults" ->
                 /\ run' = [seen EXCEPT !.pc = "districtTop", !.pageIndex = @ + 1]
                 /\ UNCHANGED <<progressStore, files>>
            [] outcome \in {"ok", "writeFail"} ->
                 /\ run' = [seen EXCEPT !.pc = "more", !.allShops = pushed]
                 /\ files' = IF outcome = "ok"
                             THEN [files EXCEPT ![FgOutputFile] = File(pushed)]
                             ELSE files
                 /\ UNCHANGED progressStore
    /\ UNCHANGED <<scraperStatus, stopRequested>>

\* line 192-194: the shops of the list that have a shopId not yet in allShops.
FgUniqueNewShops(allShops, newShops) ==
    SelectSeq(newShops, LAMBDA shop : shop \notin Range(allShops))

\* lines 157-247: one turn of the "more" loop.  "none": there is no visible
\* button, the loop ends, and after the delay the position after the
\* district is saved.  "clicked": the list has one more shop, the new shops
\* are pushed and written.  "clickFail": the click throws and is logged.
\* After the last two the status is polled: a stop saves the position of
\* this district, resets the status and throws to the catch of line 249,
\* whose `break` leaves the loop over the districts.
FgMore(outcome) ==
    /\ run.pc = "more"
    /\ outcome = "clicked" => run.clicks < FgMaxMore
    /\ outcome = "clickFail" => run.events < FgMaxEvents
    /\ LET newShops == [k \in 1..(run.clicks + 2) |->
                            FgShop(run.regionIndex, run.pageIndex, k - 1)]
           pushed == IF outcome = "clicked"
                     THEN run.allShops \o FgUniqueNewShops(run.allShops, newShops)
                     ELSE run.allShops
           seen == [run EXCEPT !.allShops = pushed,
                               !.clicks = IF outcome = "clicked" THEN @ + 1 ELSE @,
                               !.events = IF outcome = "clickFail" THEN @ + 1 ELSE @]
       IN IF outcome = "none"
          THEN /\ progressStore' = saveProgress(progressStore, FgId,
                                      [currentRegionIndex |-> run.regionIndex,
                                       currentPageIndex |-> run.pageIndex + 1])
               /\ run' = [run EXCEPT !.pc = "districtTop",
                                     !.currentPageIndex = run.pageIndex + 1,
                                     !.pageIndex = @ + 1]
               /\ UNCHANGED <<scraperStatus, files>>
          ELSE /\ files' = IF outcome = "clicked"
                           THEN [files EXCEPT ![FgOutputFile] = File(pushed)]
                           ELSE files
               /\ IF getScraperStatus(scraperStatus, FgId) = "stopped"
                  THEN /\ progressStore' = saveProgress(progressStore, FgId,
                                              [currentRegionIndex |-> run.regionIndex,
                                               currentPageIndex |-> run.pageIndex])
                       /\ scraperStatus' = resetScraper(scraperStatus, FgId)
                       /\ run' = [seen EXCEPT !.pc = "regionEnd",
                                              !.stopLen = Len(run.searched)]
                  ELSE /\ run' = seen
                       /\ UNCHANGED <<progressStore, scraperStatus>>
    /\ UNCHANGED stopRequested

\* lines 258-265: the first shop of every shopId, in the order of allShops.
FgUniqueShops(allShops) ==
    LET kept == {j \in 1..Len(allShops) : \A k \in 1..(j - 1) : allShops[k] # allShops[j]}
    IN  [n \in 1..Cardinality(kept) |->
            allShops[CHOOSE j \in kept : Cardinality({k \in kept : k <= j}) = n]]

\* lines 256-276: after the loop over the districts of a region the shops
\* without duplicates are written to the output and the loop over the
\* regions goes on with the next region.
FgRegionEnd ==
    /\ run.pc = "regionEnd"
    /\ files' = [files EXCEPT ![FgOutputFile] = File(FgUniqueShops(run.allShops))]
    /\ run' = [run EXCEPT !.pc = "regionTop", !.regionIndex = @ + 1]
    /\ UNCHANGED <<progressStore, scraperStatus, stopRequested>>

\* A caller of scraperController.js asks the running job to stop.
FgStop ==
    /\ getScraperStatus(scraperStatus, FgId) = "running"
    /\ run.pc \notin {"idle", "ended"}
    /\ run.events < FgMaxEvents
    /\ scraperStatus' = stopScraper(scraperStatus, FgId)
    /\ run' = [run EXCEPT !.events = @ + 1]
    /\ UNCHANGED <<progressStore, files, stopRequested>>

FgNext ==
    \/ FgStart
    \/ FgRegionTop
    \/ FgDistrictTop
    \/ \E outcome \in FgSearchOutcomes : FgSearch(outcome)
    \/ \E outcome \in FgMoreOutcomes : FgMore(outcome)
    \/ FgRegionEnd
    \/ FgStop

SpecFriendgolf == FgInit /\ [][FgNext]_vars

\* C32: once a run has detected a stop, at the head of a district or in the
\* "more" loop, it starts no further district search, in the current region
\* or in a later one.
C32_NoSearchAfterStop ==
    run.stopLen >= 0 => Len(run.searched) = run.stopLen

\* C34: a first run without stop and without failure over a list of two or
\* more provinces has searched every district of every province exactly once
\* when it completes.
C34_EveryDistrictOnce ==
    (/\ run.pc = "ended" /\ run.cause = "completed"
     /\ run.runs = 1 /\ run.events = 0
     /\ Len(run.regions) >= 2) =>
        \A regionIndex \in 0..(Len(run.regions) - 1) :
            \A pageIndex \in 0..(run.regions[regionIndex + 1] - 1) :
                Cardinality({j \in 1..Len(run.searched) :
                                run.searched[j] = <<regionIndex, pageIndex>>}) = 1

----------------------------------------------------------------------------
(* Further claims about scrapeSggolfDetail *)

SgResumeInit ==
    /\ scraperStatus = InitStatus
    /\ stopRequested = FALSE
    /\ run = SgIdle
    /\ \E completed \in 0..(SgNumStores - 1), data \in [1..SgNumStores -> BOOLEAN] :
          /\ \E p \in (completed + 1)..SgNumStores : data[p]
          /\ \E p \in (completed + 1)..SgNumStores : ~data[p]
          /\ progressStore = [InitProgress EXCEPT ![SgId] = [completed |-> completed]]
          /\ files = [f \in FileNames |-> IF f = SgFile THEN File(data) ELSE NoFile]

SpecSggolfDetailResume == SgResumeInit /\ [][SgNext]_vars

\* C35: the unit of a store s that completes its fetch changes in the data
\* list no entry but the entry of s, the one with the link of s.
C35_OnlyOwnEntry ==
    [][\A index \in 0..(Len(run.tasks) - 1) :
          (/\ Len(run'.tasks) = Len(run.tasks)
           /\ run.tasks[index + 1] = "fetching"
           /\ run'.tasks[index + 1] = "sleeping") =>
              \A p \in 1..Len(run.data) :
                  run.links[p] # run.storesToUpdate[index + 1] =>
                      /\ run'.links[p] = run.links[p]
                      /\ run'.data[p] = run.data[p]]_vars

----------------------------------------------------------------------------
(* thekgolf.js (thekgolf_basic): scrapeTheKgolfBasic.  A store is a number; *)
(* page p of the site lists the stores TbStoresOf(p).                       *)

TbId == "thekgolf_basic"
TbOutputFile == "thekgolf_stores.json"

\* line 61
TbMaxPage == 100

\* "gotoFail": page.goto throws, `continue`; "noList": the table does not
\* appear, `break`; "evalThrows": page.$$eval throws, which no inner handler
\* catches; "rows": the rows of the page are extracted.
TbPageOutcomes == {"gotoFail", "noList", "evalThrows", "rows"}

TbStoresOf(pageNum) ==
    IF pageNum <= TbNumPages
    THEN [k \in 1..TbPageSize |-> (pageNum - 1) * TbPageSize + k]
    ELSE <<>>

TbIdle == [pc |-> "idle", pageNum |-> 0, allStores |-> <<>>, cause |-> "none",
           runs |-> 0, events |-> 0]

TbInit ==
    /\ progressStore = InitProgress
    /\ scraperStatus = InitStatus
    /\ files = [f \in FileNames |-> NoFile]
    /\ stopRequested = FALSE
    /\ run = TbIdle

\* lines 47-98: the status is set, the progress record and the output of
\* earlier runs are read, the browser is launched.
TbStart ==
    /\ run.pc \in {"idle", "ended"}
    /\ run.runs < MaxRuns
    /\ scraperStatus' = setScraperStatus(scraperStatus, TbId, "running")
    /\ progressStore' = readProgressStore(progressStore, TbId)
    /\ run' = [run EXCEPT
                  !.pc = "pageTop", !.runs = @ + 1, !.cause = "none",
                  !.pageNum = FieldOr(readProgress(progressStore, TbId), "currentPage", 1),
                  !.allStores = files[TbOutputFile].data]
    /\ UNCHANGED <<files, stopRequested>>

\* lines 100-114, 213-231: the head of the loop over the pages and its stop
\* poll, whose error is caught at line 232; after the loop the output is
\* written, the browser closed and the status reset.
TbPageTop ==
    /\ run.pc = "pageTop"
    /\ IF run.pageNum > TbMaxPage
       THEN /\ files' = [files EXCEPT ![TbOutputFile] = File(run.allStores)]
            /\ scraperStatus' = resetScraper(scraperStatus, TbId)
            /\ run' = [run EXCEPT !.pc = "ended", !.cause = "completed"]
            /\ UNCHANGED progressStore
       ELSE IF getScraperStatus(scraperStatus, TbId) = "stopped"
       THEN /\ progressStore' = saveProgress(progressStore, TbId,
                                   [currentPage |-> run.pageNum])
            /\ scraperStatus' = resetScraper(scraperStatus, TbId)
            /\ run' = [run EXCEPT !.pc = "ended", !.cause = "stop"]
            /\ UNCHANGED files
       ELSE /\ run' = [run EXCEPT !.pc = "page"]
            /\ UNCHANGED <<progressStore, scraperStatus, files>>
    /\ UNCHANGED stopRequested

\* lines 165-182: processStore of every row: a store not yet in allStores
\* (same name and address) is pushed.
TbPushNew(allStores, stores) ==
    allStores \o SelectSeq(stores, LAMBDA store : store \notin Range(allStores))

\* lines 116-211: one page.  After the rows are processed the output is
\* written, {currentPage: pageNum + 1} saved and the status polled again.
\* An error of page.$$eval goes to the catch of line 232, which logs it.
TbPage(outcome) ==
    /\ run.pc = "page"
    /\ outcome \in {"gotoFail", "noList", "evalThrows"} => run.events < TbMaxEvents
    /\ LET stores == TbStoresOf(run.pageNum)
           pushed == TbPushNew(run.allStores, stores)
           seen == [run EXCEPT !.events = IF outcome = "rows" THEN @ ELSE @ + 1]
       IN CASE outcome = "gotoFail" ->
                 /\ run' = [seen EXCEPT !.pc = "pageTop", !.pageNum = @ + 1]
                 /\ UNCHANGED <<progressStore, scraperStatus, files>>
            [] outcome = "evalThrows" ->
                 /\ run' = [seen EXCEPT !.pc = "ended", !.cause = "error"]
                 /\ UNCHANGED <<progressStore, scraperStatus, files>>
            [] outcome = "noList" \/ (outcome = "rows" /\ Len(stores) = 0) ->
                 /\ files' = [files EXCEPT ![TbOutputFile] = File(run.allStores)]
                 /\ scraperStatus' = resetScraper(scraperStatus, TbId)
                 /\ run' = [seen EXCEPT !.pc = "ended", !.cause = "completed"]
                 /\ UNCHANGED progressStore
            [] outcome = "rows" /\ Len(stores) > 0 ->
                 /\ files' = [files EXCEPT ![TbOutputFile] = File(pushed)]
                 /\ progressStore' = saveProgress(progressStore, TbId,
                                        [currentPage |-> run.pageNum + 1])
                 /\ IF getScraperStatus(scraperStatus, TbId) = "stopped"
                    THEN /\ scraperStatus' = resetScraper(scraperStatus, TbId)
                         /\ run' = [seen EXCEPT !.pc = "ended", !.cause = "stop",
                                                !.allStores = pushed]
                    ELSE /\ run' = [seen EXCEPT !.pc = "pageTop", !.pageNum = @ + 1,
                                                !.allStores = pushed]
                         /\ UNCHANGED scraperStatus
    /\ UNCHANGED stopRequested

\* A caller of scraperController.js asks the running job to stop.
TbStop ==
    /\ getScraperStatus(scraperStatus, TbId) = "running"
    /\ run.pc \in {"pageTop", "page"}
    /\ run.events < TbMaxEvents
    /\ scraperStatus' = stopScraper(scraperStatus, TbId)
    /\ run' = [run EXCEPT !.events = @ + 1]
    /\ UNCHANGED <<progressStore, files, stopRequested>>

TbNext ==
    \/ TbStart
    \/ TbPageTop
    \/ \E outcome \in TbPageOutcomes : TbPage(outcome)
    \/ TbStop

SpecTheKgolfBasic == TbInit /\ [][TbNext]_vars

\* C36: whenever a call of scrapeTheKgolfBasic has ended, by completion, by
\* cancellation or by an error its outer handler caught, the status of
\* 'thekgolf_basic' is not 'running'.
C36_NotRunningAfterEnd ==
    run.pc = "ended" => getScraperStatus(scraperStatus, TbId) # "running"

----------------------------------------------------------------------------
(* Further claims about scrapeCiteezen *)

\* No two positions of a list of stores hold the same link.
CtDistinctLinks(stores) ==
    \A j, k \in 1..Len(stores) : stores[j] = stores[k] => j = k

\* The outputs an earlier process may have left: lists of stores of the
\* first page with pairwise distinct links.  The progress record is in
\* memory only, so a new process starts at page 1 with such an output.
CtLoaded ==
    {s \in UNION {[1..n -> Range(CtStoresOf(1))] : n \in 0..CtPageSize} :
        CtDistinctLinks(s)}

CtLoadedInit ==
    /\ progressStore = InitProgress
    /\ scraperStatus = InitStatus
    /\ stopRequested = FALSE
    /\ run = CtIdle
    /\ \E loaded \in CtLoaded :
          files = [f \in FileNames |->
                     IF f = CtOutputFile /\ loaded # <<>> THEN File(loaded) ELSE NoFile]

SpecCiteezenLoaded == CtLoadedInit /\ [][CtNext]_vars

\* C37: if the accumulator loaded at the start has pairwise distinct links,
\* then after any page fetches, page failures, stops and resumed runs no two
\* records of the accumulator, and none of the output file, have the same
\* link.
C37_DistinctLinks ==
    /\ CtDistinctLinks(run.allStores)
    /\ CtDistinctLinks(files[CtOutputFile].data)

\* The first page was merged into an accumulator that already held its
\* second store: only the first store was pushed.
C37_Witness ==
    /\ run.runs = 1 /\ run.pc = "top" /\ run.pageNum = 2
    /\ run.allStores = <<2, 1>>
    /\ files[CtOutputFile].data = <<2, 1>>

----------------------------------------------------------------------------
(* Further claims about scrapeOkongolf *)

\* C38: over runs that are each started after the tasks of the run before
\* have finished, the record of a row of a page is pushed to an accumulator
\* at most once, and a task of a row whose index is recorded in
\* processedIndexes[page] when it starts ends without a push.
C38_AtMostOnce ==
    /\ [](run.again = {})
    /\ [][\A index \in 0..(Len(run.inv[1].tasks) - 1) :
             (/\ Len(run'.inv[1].tasks) = Len(run.inv[1].tasks)
              /\ run.inv[1].tasks[index + 1] = "queued"
              /\ run'.inv[1].tasks[index + 1] # "queued"
              /\ index \in run.heap[run.inv[1].processedIndexes][run.inv[1].pageNum]) =>
                 /\ run'.inv[1].tasks[index + 1] \in {"done", "stopping"}
                 /\ run'.inv[1].allStores = run.inv[1].allStores]_vars

\* A resumed run is on the page on which the run before was stopped: the row
\* that run pushed after its stop is skipped and the row it left is pushed.
C38_Witness ==
    /\ run.runs = 2
    /\ run.inv[1].pc = "batch" /\ run.inv[1].pageNum = 2
    /\ run.inv[1].tasks = <<"writing", "done">>
    /\ run.inv[1].allStores = <<1, 2, 4, 3>>


\* ---------------------------------------------------------------------
\* Further claims about scrapePublicgolfDetail
\* ---------------------------------------------------------------------

\* C39: in every reachable state of a run the progress counter
\* progress.currentIndex equals its value at the start of the run plus the
\* number of unit tasks that have finished (a task counts from its increment
\* of line 138 on; states in which a task has thrown are left to the bound),
\* and it never exceeds that start value plus the number of stores to update.
C39_IndexCountsFinished ==
    run.pc \in {"running", "closing", "ended"} /\ Len(run.tasks) > 0 =>
        /\ CountIn(run.tasks, {"thrown"}) = 0 =>
              run.currentIndex =
                 run.start + CountIn(run.tasks, {"writing", "done"})
        /\ run.currentIndex <= run.start + Len(run.tasks)

====
